---- MODULE Spec2Model ----
(***************************************************************************)
(* The protocol engine of rust-postgres (src/lib.rs): one connection, its  *)
(* prepared statements, result streams and transaction handles, driven     *)
(* against a backend that answers every batch the connection writes.       *)
(*                                                                         *)
(* Every public operation is synchronous: it writes its batch, the backend *)
(* answers, and the operation reads the answer through read_message.  One  *)
(* action is one whole operation.  The handlers are operators on a record  *)
(* of the program state, so that the same handler can be run a second time *)
(* on the `shadow` record: the run that receives the same backend answers  *)
(* with no asynchronous frame inserted.                                    *)
(***************************************************************************)
EXTENDS Integers, Sequences, FiniteSets, TLC

\* Bounds of the model.  Each specification takes its bounds from its mode.
MaxStmts == 2
MaxPortals == 1
MaxExecs == 1
MaxRows == 3
MaxLimit == 2
MaxTxns == 3
MaxAsync == 2
MaxPos == 4
Few == 1
MaxParams == 1
MaxTag == 3
MaxKeys == 2
MaxCancels == 1
MaxCols == 2
MaxHandlers == 1
MaxNames == 2
MaxOids == 2
MaxStream == 3

VARIABLES
    inbuf,          \* stream: backend frames not yet read by the connection
    written,        \* every frame the connection has written, in order
    next_stmt_id,   \* InnerPostgresConnection.next_stmt_id
    notifications,  \* InnerPostgresConnection.notifications (RingBuf)
    failing,        \* task::failing(): the task is unwinding
    status,         \* "open", "closed" (Terminate written), "aborted", "hung",
                    \* and "new" before try_connect where a run starts there
    stmts,          \* live statement handles: id -> [next_portal_id, txn,
                    \* param_types (their number), result_desc (its length)]
    results,        \* live result streams: <<stmt, k>> -> [data, row_limit,
                    \* more_rows], and tag: the count of the CommandComplete
                    \* read_rows has read (the code drops it), -1 before
    txns,           \* live transaction handles: id -> [commit, nested, parent],
                    \* and erred: how an execute through the handle failed
    next_txn_id,    \* identity of the next transaction handle
    bportals,       \* backend: open portals, name -> [total, pos]
    bsavepoints,    \* backend: the savepoints of the open transaction, oldest
                    \* first, by name
    emitted,        \* backend: number of NotificationResponse frames emitted
    seen,           \* every notification read_message has read, in order
    delivered,      \* every notification the notifications iterator returned
    handled,        \* for every notice passed to a notice handler, in order,
                    \* the handler it was passed to
    notice_handler, \* InnerPostgresConnection.notice_handler: 0 is the
                    \* DefaultNoticeHandler
    unknown_types,  \* InnerPostgresConnection.unknown_types: oid -> name
    yielded,        \* rows each live result stream has returned from next()
    execs,          \* number of try_execute calls made on statements
    opened,         \* names of the statements and portals a handle was made for
    hist,           \* transaction events: begin / nested / term, in order
    last,           \* the last operation: what it was and how it ended
    trace,          \* [on, log, sockets]: where on, log holds the frames
                    \* written to and read from the stream, in the order of
                    \* the connection's writes and reads, and sockets the
                    \* like of every transport cancel_query has opened
    cancel_data,    \* InnerPostgresConnection.cancel_data
    stream,         \* InnerPostgresConnection.stream: "Normal" or "Ssl" once
                    \* initialize_stream has returned it, "none" before
    shadow          \* the same run with no asynchronous frame inserted

vars == <<inbuf, written, next_stmt_id, notifications, failing, status, stmts,
          results, txns, next_txn_id, bportals, bsavepoints, emitted, seen, delivered,
          handled, notice_handler, unknown_types, yielded, execs, opened, hist, last, trace, cancel_data,
          stream, shadow>>

State ==
    [inbuf |-> inbuf, written |-> written, next_stmt_id |-> next_stmt_id,
     notifications |-> notifications, failing |-> failing, status |-> status,
     stmts |-> stmts, results |-> results, txns |-> txns,
     next_txn_id |-> next_txn_id, bportals |-> bportals,
     bsavepoints |-> bsavepoints, emitted |-> emitted,
     seen |-> seen, delivered |-> delivered, handled |-> handled,
     notice_handler |-> notice_handler, unknown_types |-> unknown_types,
     yielded |-> yielded, execs |-> execs, opened |-> opened, hist |-> hist,
     last |-> last, trace |-> trace, cancel_data |-> cancel_data,
     stream |-> stream]

Install(n) ==
    /\ inbuf' = n.inbuf
    /\ written' = n.written
    /\ next_stmt_id' = n.next_stmt_id
    /\ notifications' = n.notifications
    /\ failing' = n.failing
    /\ status' = n.status
    /\ stmts' = n.stmts
    /\ results' = n.results
    /\ txns' = n.txns
    /\ next_txn_id' = n.next_txn_id
    /\ bportals' = n.bportals
    /\ bsavepoints' = n.bsavepoints
    /\ emitted' = n.emitted
    /\ seen' = n.seen
    /\ delivered' = n.delivered
    /\ handled' = n.handled
    /\ notice_handler' = n.notice_handler
    /\ unknown_types' = n.unknown_types
    /\ yielded' = n.yielded
    /\ execs' = n.execs
    /\ opened' = n.opened
    /\ hist' = n.hist
    /\ last' = n.last
    /\ trace' = n.trace
    /\ cancel_data' = n.cancel_data
    /\ stream' = n.stream

Empty == [x \in {} |-> 0]

\* PostgresCancelData { process_id: 0, secret_key: 0 }
NoCancelData == [process_id |-> 0, secret_key |-> 0]

Min(a, b) == IF a < b THEN a ELSE b

\* F(e), with e evaluated once however often F uses it.
Once(e, F(_)) == CHOOSE r \in {F(x) : x \in {e}} : TRUE

Without(f, k) == [x \in DOMAIN f \ {k} |-> f[x]]

With(f, k, v) == [x \in DOMAIN f \cup {k} |-> IF x = k THEN v ELSE f[x]]

(***************************************************************************)
(* Frames.                                                                 *)
(***************************************************************************)
NoName == <<>>

\* Option::None of a cell.
None == "NULL"

\* format!("statement_{}", id)
StmtName(id) == <<"statement", id>>

\* format!("{}_portal_{}", self.name, id)
PortalName(sid, k) == <<"statement", sid, "portal", k>>

\* A text is the sequence of its characters.
NoTag == <<>>

Digits == <<"0", "1", "2", "3", "4", "5", "6", "7", "8", "9">>

DigitValue(ch) == CHOOSE d \in 0 .. 9 : Digits[d + 1] = ch

IsDigit(ch) == \E d \in 0 .. 9 : Digits[d + 1] = ch

RECURSIVE Decimal(_)
Decimal(n) ==
    IF n < 10 THEN <<Digits[n + 1]>>
    ELSE Decimal(n \div 10) \o <<Digits[(n % 10) + 1]>>

\* The command tag of a statement that has processed n rows.
CountTag(n) == <<"S", "E", "L", "E", "C", "T", " ">> \o Decimal(n)

BFrame(t, name, n) == [t |-> t, name |-> name, n |-> n, tag |-> NoTag]

ParseComplete == BFrame("ParseComplete", NoName, 0)
\* The type OIDs of n parameters or columns, of which the first Len(oids)
\* have the OIDs oids and the others the OID of a type PostgresType::from_oid
\* knows; 0 stands for any such OID.
TypeOids(n, oids) == [i \in 1 .. n |-> IF i <= Len(oids) THEN oids[i] ELSE 0]

\* ParameterDescription with the given number of types.
ParameterDescription(types) ==
    [t |-> "ParameterDescription", name |-> NoName, n |-> types, tag |-> NoTag,
     oids |-> TypeOids(types, <<>>)]
\* RowDescription with n descriptions.
RowDescription(n) ==
    [t |-> "RowDescription", name |-> NoName, n |-> n, tag |-> NoTag,
     oids |-> TypeOids(n, <<>>)]
\* A DataRow of a simple query, with its cells.
CellRow(row) ==
    [t |-> "DataRow", name |-> NoName, n |-> 1, tag |-> NoTag, row |-> row]
NoData == BFrame("NoData", NoName, 0)
BindComplete == BFrame("BindComplete", NoName, 0)
CloseComplete == BFrame("CloseComplete", NoName, 0)
EmptyQueryResponse == BFrame("EmptyQueryResponse", NoName, 0)
PortalSuspended == BFrame("PortalSuspended", NoName, 0)
ErrorResponse == BFrame("ErrorResponse", NoName, 0)
ReadyForQuery == BFrame("ReadyForQuery", NoName, 0)
NoticeResponse == BFrame("NoticeResponse", NoName, 0)
ParameterStatus == BFrame("ParameterStatus", NoName, 0)
NotificationResponse(n) == BFrame("NotificationResponse", NoName, n)
CommandComplete(n) ==
    [BFrame("CommandComplete", NoName, n) EXCEPT !.tag = CountTag(n)]
DataRow(portal, i) == BFrame("DataRow", portal, i)
EOF == BFrame("EOF", NoName, 0)

AsyncKinds == {"NoticeResponse", "NotificationResponse", "ParameterStatus"}

FFrame(t, variant, name, stmt, n, q) ==
    [t |-> t, variant |-> variant, name |-> name, stmt |-> stmt, n |-> n, q |-> q]

Parse(name) == FFrame("Parse", "", name, NoName, 0, "")
Describe(variant, name) == FFrame("Describe", variant, name, NoName, 0, "")
Bind(portal, statement) == FFrame("Bind", "", portal, statement, 0, "")
Execute(portal, max_rows) == FFrame("Execute", "", portal, NoName, max_rows, "")
Close(variant, name) == FFrame("Close", variant, name, NoName, 0, "")
Query(q) == FFrame("Query", "", NoName, NoName, 0, q)
\* Query { query: format!("SELECT typname FROM pg_type WHERE oid={}", oid) }
TypeQuery(oid) ==
    FFrame("Query", "", NoName, NoName, oid,
           "SELECT typname FROM pg_type WHERE oid=")
Sync == FFrame("Sync", "", NoName, NoName, 0, "")
Terminate == FFrame("Terminate", "", NoName, NoName, 0, "")

(***************************************************************************)
(* The backend: the answer to one batch.  c is the backend's choice for    *)
(* the batch: c.prep for Parse/Describe, c.bind and c.rows for Bind,       *)
(* c.exec for Execute, c.q for Query.                                      *)
(***************************************************************************)
RECURSIVE Rows(_, _, _)
Rows(portal, from, to) ==
    IF from > to THEN <<>>
    ELSE <<DataRow(portal, from)>> \o Rows(portal, from + 1, to)

\* Execute(portal, max_rows) on a portal that has sent pos of its total rows.
ExecuteReply(portal, max_rows, total, pos, exec) ==
    LET upto == IF max_rows = 0 THEN total ELSE Min(pos + max_rows, total)
        stop == IF exec = "error" THEN ErrorResponse
                ELSE IF exec = "empty" THEN EmptyQueryResponse
                ELSE IF max_rows > 0 /\ pos + max_rows <= total
                     THEN PortalSuspended
                     ELSE CommandComplete(total)
    IN  Rows(portal, pos + 1, upto) \o <<stop>>

ExecutePos(max_rows, total, pos) ==
    IF max_rows = 0 THEN total ELSE Min(pos + max_rows, total)

\* The reply, its CommandComplete carrying the tag the backend chose.
Retag(reply, c) ==
    [i \in 1 .. Len(reply) |->
        IF reply[i].t = "CommandComplete" /\ c.tagged
        THEN [reply[i] EXCEPT !.tag = c.tag] ELSE reply[i]]

BackendReply(b, batch, c) ==
    LET f == batch[1] IN
    CASE f.t = "Parse" ->
           CASE c.prep = "parse_error" -> <<ErrorResponse, ReadyForQuery>>
             [] c.prep = "nodata" ->
                  <<ParseComplete,
                    [ParameterDescription(c.types) EXCEPT
                        !.oids = TypeOids(c.types, c.poids)],
                    NoData, ReadyForQuery>>
             [] OTHER ->
                  <<ParseComplete,
                    [ParameterDescription(c.types) EXCEPT
                        !.oids = TypeOids(c.types, c.poids)],
                    [RowDescription(c.cols) EXCEPT
                        !.oids = TypeOids(c.cols, c.coids)],
                    ReadyForQuery>>
      [] f.t = "Bind" ->
           IF c.bind = "error" THEN <<ErrorResponse, ReadyForQuery>>
           ELSE <<BindComplete>>
                \o Retag(ExecuteReply(f.name, batch[2].n, c.rows, 0, c.exec), c)
                \o <<ReadyForQuery>>
      [] f.t = "Execute" ->
           IF f.name \in DOMAIN b
           THEN ExecuteReply(f.name, f.n, b[f.name].total, b[f.name].pos, c.exec)
                \o <<ReadyForQuery>>
           ELSE <<ErrorResponse, ReadyForQuery>>
      [] f.t = "Close" -> <<CloseComplete, ReadyForQuery>>
      [] f.t = "Query" ->
           IF c.q = "error" THEN <<ErrorResponse, ReadyForQuery>>
           ELSE IF f = TypeQuery(f.n)
           THEN <<RowDescription(1)>>
                \o (CASE c.q = "norow" -> <<>>
                       [] c.q = "null" -> <<CellRow(<<None>>)>>
                       [] OTHER -> <<CellRow(<<c.typname>>)>>)
                \o <<CommandComplete(IF c.q = "norow" THEN 0 ELSE 1),
                     ReadyForQuery>>
           ELSE <<CommandComplete(0), ReadyForQuery>>
      [] OTHER -> <<>>

BackendPortals(b, batch, c) ==
    LET f == batch[1] IN
    CASE f.t = "Bind" /\ c.bind # "error" /\ f.name # NoName ->
           With(b, f.name,
                [total |-> c.rows, pos |-> ExecutePos(batch[2].n, c.rows, 0)])
      [] f.t = "Execute" /\ f.name \in DOMAIN b ->
           With(b, f.name,
                [total |-> b[f.name].total,
                 pos |-> ExecutePos(f.n, b[f.name].total, b[f.name].pos)])
      [] f.t = "Close" /\ f.variant = "P" -> Without(b, f.name)
      [] OTHER -> b

\* The savepoints after a query that succeeds.  SAVEPOINT sp establishes a
\* savepoint and keeps the older ones of the same name; RELEASE sp destroys
\* the newest savepoint named sp and those established after it; ROLLBACK
\* TO sp destroys those established after the newest savepoint named sp and
\* keeps that savepoint; the end of the transaction destroys them all.
Newest(b, name) ==
    LET at == {i \in 1 .. Len(b) : b[i] = name}
    IN  IF at = {} THEN 0 ELSE CHOOSE i \in at : \A j \in at : j <= i

BackendSavepoints(b, batch, c) ==
    LET f == batch[1] IN
    IF f.t # "Query" \/ c.q = "error" \/ f.n # 0 THEN b
    ELSE CASE f.q = "SAVEPOINT sp" -> Append(b, "sp")
           [] f.q = "RELEASE sp" -> SubSeq(b, 1, Newest(b, "sp") - 1)
           [] f.q = "ROLLBACK TO sp" -> SubSeq(b, 1, Newest(b, "sp"))
           [] f.q \in {"BEGIN", "COMMIT", "ROLLBACK"} -> <<>>
           [] OTHER -> b

NoIns == [b |-> 1, pos |-> 0, kind |-> "NoticeResponse"]

\* The insertion ins when it is meant for the k-th batch of an operation.
At(ins, k) == IF ins.b = k THEN ins ELSE NoIns

AsyncFrame(kind, n) ==
    CASE kind = "NotificationResponse" -> NotificationResponse(n)
      [] kind = "ParameterStatus" -> ParameterStatus
      [] OTHER -> NoticeResponse

Inserts(reply, ins) == ins.pos >= 1 /\ ins.pos <= Len(reply)

\* The reply with the asynchronous frame ins put before its frame ins.pos.
Insert(reply, ins, n) ==
    IF Inserts(reply, ins)
    THEN SubSeq(reply, 1, ins.pos - 1) \o <<AsyncFrame(ins.kind, n)>>
         \o SubSeq(reply, ins.pos, Len(reply))
    ELSE reply

Backend(s, batch, c, ins) ==
    LET reply == BackendReply(s.bportals, batch, c)
        notif == Inserts(reply, ins) /\ ins.kind = "NotificationResponse"
    IN  [s EXCEPT !.inbuf = @ \o Insert(reply, ins, s.emitted + 1),
                  !.bportals = BackendPortals(@, batch, c),
                  !.bsavepoints = BackendSavepoints(@, batch, c),
                  !.emitted = IF notif THEN @ + 1 ELSE @]

\* Beside the backend's choice, c carries the two numbers a call depends
\* on: c.types, the number of parameters of the query text (the types the
\* backend describes), and c.params, the number of parameters the call
\* passes.
Choice(prep, bind, exec, rows, q) ==
    [prep |-> prep, bind |-> bind, exec |-> exec, rows |-> rows, q |-> q,
     types |-> 0, params |-> 0, tagged |-> FALSE, tag |-> NoTag, cols |-> 0,
     poids |-> <<>>, coids |-> <<>>, typname |-> "a"]

NoChoice == Choice("", "", "", 0, "")

(***************************************************************************)
(* InnerPostgresConnection.                                                *)
(***************************************************************************)
\* fail!() and unreachable!(): the task starts unwinding; a failure while it
\* is already unwinding aborts the process.
Panic(s) ==
    IF s.failing THEN [s EXCEPT !.status = "aborted"]
    ELSE [s EXCEPT !.failing = TRUE]

\* A read on a stream with no frame left never returns.
Hang(s) == [s EXCEPT !.status = "hung"]

Unexpected(s, msg) == IF msg.t = "EOF" THEN Hang(s) ELSE Panic(s)

\* Whether the step from a to b ended in a failure instead of returning.
Unwound(a, b) ==
    a.failing # b.failing \/ (a.status # b.status /\ b.status # "closed")

\* An entry of the trace: a frame written ("F") or read ("B").
Traced(dir, f) == [dir |-> dir, f |-> f]

\* The trace with the entries added, where the trace is kept.
Log(tr, entries) == IF tr.on THEN [tr EXCEPT !.log = @ \o entries] ELSE tr

\* self.stream.flush(): the frames in the buffer of the BufferedStream go
\* on the transport.
flush(s, buffer) ==
    [s EXCEPT !.written = @ \o buffer,
              !.trace = Log(@, [i \in 1 .. Len(buffer) |->
                                   Traced("F", buffer[i])])]

\* A write_messages that ends its batch with a second Sync.
write_messages_resynced(s, messages) == flush(s, Append(messages, Sync))

\* write_messages: every message into the buffer, then one flush.
write_messages(s, messages) == flush(s, messages)

\* write_messages followed by the backend's answer to what has reached the
\* transport arriving on the stream.
Send(s, messages, c, ins) ==
    Once(s, LAMBDA s0 :
        Once(write_messages(s0, messages), LAMBDA w :
            IF Len(w.written) = Len(s0.written) THEN w
            ELSE Backend(w, SubSeq(w.written, Len(s0.written) + 1,
                                   Len(w.written)), c, ins)))

push_front(q, x) == <<x>> \o q

push_back(q, x) == Append(q, x)

\* A read_message that returns whatever frame comes first.
read_message_raw(s) ==
    IF s.inbuf = <<>> THEN [s |-> s, msg |-> EOF]
    ELSE [s |-> [s EXCEPT !.inbuf = Tail(@),
                          !.trace = Log(@, <<Traced("B", Head(s.inbuf))>>)],
          msg |-> Head(s.inbuf)]

\* set_notice_handler: the handler is replaced and the old one returned.
set_notice_handler(s, handler) ==
    [s EXCEPT !.notice_handler = handler,
              !.last = [op |-> "set_notice_handler", h |-> 0, out |-> "ok",
                        val |-> s.notice_handler]]

RECURSIVE read_message(_)
read_message(s) ==
    IF s.inbuf = <<>> THEN [s |-> s, msg |-> EOF]
    ELSE LET m == Head(s.inbuf)
             r == [s EXCEPT !.inbuf = Tail(@),
                            !.trace = Log(@, <<Traced("B", m)>>)]
         IN  CASE m.t = "NoticeResponse" ->
                    read_message([r EXCEPT
                        !.handled = Append(@, r.notice_handler)])
               [] m.t = "NotificationResponse" ->
                    read_message([r EXCEPT
                        !.notifications = push_back(@, m.n),
                        !.seen = Append(@, m.n)])
               [] m.t = "ParameterStatus" -> read_message(r)
               [] OTHER -> [s |-> r, msg |-> m]

wait_for_ready(s) ==
    LET r == read_message(s) IN
    IF r.msg.t = "ReadyForQuery" THEN r.s ELSE Unexpected(r.s, r.msg)

RECURSIVE quick_query_loop(_)
quick_query_loop(s) ==
    LET r == read_message(s) IN
    CASE r.msg.t = "ReadyForQuery" -> r.s
      [] r.msg.t = "ErrorResponse" -> Panic(r.s)
      [] r.msg.t = "EOF" -> Hang(r.s)
      [] OTHER -> quick_query_loop(r.s)

quick_query(s, query, c, ins) ==
    quick_query_loop(Send(s, <<Query(query)>>, c, ins))

\* The drain loop of the Drop impls: read up to the next ReadyForQuery.
RECURSIVE drain(_)
drain(s) ==
    LET r == read_message(s) IN
    CASE r.msg.t = "ReadyForQuery" -> r.s
      [] r.msg.t = "EOF" -> Hang(r.s)
      [] OTHER -> drain(r.s)

Outcome(a, b, normal) ==
    IF b.status = "aborted" THEN "abort"
    ELSE IF b.status = "hung" THEN "hang"
    ELSE IF Unwound(a, b) THEN "panic"
    ELSE normal

Done(s0, s, op, h, normal, val) ==
    [s EXCEPT !.last = [op |-> op, h |-> h, out |-> Outcome(s0, s, normal),
                        val |-> val]]

\* Wrappers that let the error value pass without failing the task.
StrictNoFail(s0, s, strict) ==
    IF strict /\ s.last.out = "err" THEN [s EXCEPT !.last.out = "failed"] ELSE s

\* The wrappers without try_ (prepare, execute, query, lazy_query): fail!()
\* on the error value the try_ form returns.
Strict(s0, s, strict) ==
    IF strict /\ s.last.out = "err"
    THEN LET p == Panic(s) IN [p EXCEPT !.last.out = "failed"]
    ELSE s

\* The loop of quick_query with the rows it collects: the cells of every
\* DataRow read before ReadyForQuery.
RECURSIVE quick_query_rows(_, _)
quick_query_rows(s, result) ==
    LET r == read_message(s) IN
    CASE r.msg.t = "ReadyForQuery" -> [s |-> r.s, result |-> result]
      [] r.msg.t = "DataRow" -> quick_query_rows(r.s, Append(result, r.msg.row))
      [] r.msg.t = "ErrorResponse" -> [s |-> Panic(r.s), result |-> result]
      [] r.msg.t = "EOF" -> [s |-> Hang(r.s), result |-> result]
      [] OTHER -> quick_query_rows(r.s, result)

\* A get_type_name that asks the backend every time.
get_type_name_uncached(s, oid, c) ==
    LET q == quick_query_rows(Send(s, <<TypeQuery(oid)>>, c, NoIns), <<>>)
    IN  IF Unwound(s, q.s) THEN [s |-> q.s, name |-> None]
        ELSE IF q.result = <<>> \/ q.result[1][1] = None
        THEN [s |-> Panic(q.s), name |-> None]
        ELSE [s |-> [q.s EXCEPT !.unknown_types = With(@, oid, q.result[1][1])],
              name |-> q.result[1][1]]

\* get_type_name: the cached name of the type, or the first cell of the
\* first row of the type query, which is then cached; [0][0] of a result
\* without rows and unwrap() of a NULL cell fail the task.
get_type_name(s, oid, c) ==
    IF oid \in DOMAIN s.unknown_types
    THEN [s |-> s, name |-> s.unknown_types[oid]]
    ELSE LET q == quick_query_rows(Send(s, <<TypeQuery(oid)>>, c, NoIns), <<>>)
         IN  IF Unwound(s, q.s) THEN [s |-> q.s, name |-> None]
             ELSE IF q.result = <<>> \/ q.result[1][1] = None
             THEN [s |-> Panic(q.s), name |-> None]
             ELSE [s |-> [q.s EXCEPT
                             !.unknown_types = With(@, oid, q.result[1][1])],
                   name |-> q.result[1][1]]

\* The loops of try_prepare over the types oids: every PgUnknownType (an
\* OID other than 0) gets the name get_type_name returns; names collects
\* them as [oid, name].
RECURSIVE type_names(_, _, _, _)
type_names(s, oids, names, c) ==
    IF oids = <<>> THEN [s |-> s, names |-> names]
    ELSE IF Head(oids) = 0 THEN type_names(s, Tail(oids), names, c)
    ELSE LET g == get_type_name(s, Head(oids), c)
         IN  IF Unwound(s, g.s) THEN [s |-> g.s, names |-> names]
             ELSE type_names(g.s, Tail(oids),
                             Append(names, [oid |-> Head(oids),
                                            name |-> g.name]), c)

\* try_prepare: txn is the transaction handle the statement is prepared
\* through (0: the connection itself).  r1, r2 and r3 are the reads of the
\* three frames, s4 the state after wait_for_ready and g what the loops
\* over the type OIDs return.
try_prepare(s, txn, c, ins) ==
    LET id == s.next_stmt_id
        stmt_name == StmtName(id)
        err(n) == Done(s, n, "try_prepare", id, "err", 0)
    IN
    Once(read_message(Send([s EXCEPT !.next_stmt_id = @ + 1],
                           <<Parse(stmt_name), Describe("S", stmt_name), Sync>>,
                           c, ins)), LAMBDA r1 :
    IF r1.msg.t = "ErrorResponse" THEN err(wait_for_ready(r1.s))
    ELSE IF r1.msg.t # "ParseComplete" THEN err(Unexpected(r1.s, r1.msg))
    ELSE Once(read_message(r1.s), LAMBDA r2 :
    IF r2.msg.t # "ParameterDescription" THEN err(Unexpected(r2.s, r2.msg))
    ELSE Once(read_message(r2.s), LAMBDA r3 :
    IF r3.msg.t \notin {"RowDescription", "NoData"}
    THEN err(Unexpected(r3.s, r3.msg))
    ELSE Once(wait_for_ready(r3.s), LAMBDA s4 :
    IF Unwound(r3.s, s4) THEN err(s4)
    ELSE Once(type_names(s4,
                         r2.msg.oids \o (IF r3.msg.t = "NoData" THEN <<>>
                                         ELSE r3.msg.oids),
                         <<>>, c), LAMBDA g :
    IF Unwound(s4, g.s) THEN err(g.s)
    ELSE Done(s, [g.s EXCEPT
                     !.stmts = With(@, id, [next_portal_id |-> 0,
                                            txn |-> txn,
                                            param_types |-> r2.msg.n,
                                            result_desc |->
                                                IF r3.msg.t = "NoData"
                                                THEN 0 ELSE r3.msg.n,
                                            unknown |-> g.names]),
                     !.opened = @ \cup {stmt_name}],
              "try_prepare", id, "ok", 0))))))

\* A Drop for NormalPostgresStatement that writes nothing.
drop_statement_silent(s, id, ins) ==
    Done(s, [s EXCEPT !.stmts = Without(@, id)], "drop_statement", id, "ok", 0)

\* Drop for NormalPostgresStatement.
drop_statement(s, id, ins) ==
    LET s1 == Send([s EXCEPT !.stmts = Without(@, id)],
                   <<Close("S", StmtName(id)), Sync>>, NoChoice, ins)
    IN  Done(s, drain(s1), "drop_statement", id, "ok", 0)

\* Drop for InnerPostgresConnection.
\* A drop of the connection that does not trap io_error: the transport
\* error of the write fails the task.
drop_connection_untrapped(s, io) ==
    LET w == [write_messages(s, <<Terminate>>) EXCEPT !.status = "closed"]
        d == Done(s, IF io = "error" THEN Panic(w) ELSE w,
                  "drop_connection", 0, "ok", 0)
    IN  [d EXCEPT !.last = [op |-> "drop_connection", h |-> 0,
                            out |-> d.last.out, val |-> 0, io |-> io]]

\* Drop for InnerPostgresConnection: Terminate is handed to the stream
\* inside io_error::cond.trap, so the outcome io of the write ("ok" or
\* "error") changes nothing but the record of the call.
drop_connection(s, io) ==
    LET d == Done(s, [write_messages(s, <<Terminate>>)
                         EXCEPT !.status = "closed"],
                  "drop_connection", 0, "ok", 0)
    IN  [d EXCEPT !.last = [op |-> "drop_connection", h |-> 0,
                            out |-> d.last.out, val |-> 0, io |-> io]]

(***************************************************************************)
(* Connecting and cancelling.  k is the environment's choice for one call: *)
(* what the URL holds (k.url, k.pass), whether a socket opens (k.sock),    *)
(* the byte the server answers an SslRequest with (k.byte), whether the    *)
(* TLS handshake succeeds (k.tls), and the frames the backend sends during *)
(* startup (k.auth, k.auth2, k.status, k.keys, k.end).                     *)
(***************************************************************************)
\* message::SSL_CODE and message::CANCEL_CODE
SSL_CODE == 80877103
CANCEL_CODE == 80877102

SslRequest == [t |-> "SslRequest", code |-> SSL_CODE]

CancelRequest(data) ==
    [t |-> "CancelRequest", code |-> CANCEL_CODE,
     process_id |-> data.process_id, secret_key |-> data.secret_key]

StartupMessage == FFrame("StartupMessage", "", NoName, NoName, 0, "")

PasswordMessage(password) ==
    FFrame("PasswordMessage", "", NoName, NoName, 0, password)

BackendKeyData(data) ==
    [t |-> "BackendKeyData", process_id |-> data.process_id,
     secret_key |-> data.secret_key]

\* The one byte the server answers an SslRequest with.
Byte(b) == [t |-> "byte", b |-> b]

\* The stream given to SslStream::try_new, which reads and writes on it.
Handshake == [t |-> "handshake"]

\* hex(md5(input)), as a term.
md5_hex(input) == <<"md5", input>>

\* The frames the backend sends once authentication is done.
StartupFrames(k) ==
    (IF k.status THEN <<ParameterStatus>> ELSE <<>>)
    \o [i \in 1 .. Len(k.keys) |-> BackendKeyData(k.keys[i])]
    \o <<BFrame(k.end, NoName, 0)>>

\* The backend's answer to the StartupMessage (first) and to the
\* PasswordMessage: an authentication frame, and the startup frames after
\* AuthenticationOk.
AuthReply(k, first) ==
    LET kind == IF first THEN k.auth ELSE k.auth2
    IN  <<BFrame(kind, NoName, 0)>>
        \o IF kind = "AuthenticationOk" THEN StartupFrames(k) ELSE <<>>

\* open_socket: "ok", or the error it returns.
open_socket(k) == k.sock

\* initialize_stream: the stream ("Normal" or "Ssl") or the error, and the
\* writes and reads made on the socket.
initialize_stream(ssl, k) ==
    LET asked == <<Traced("F", SslRequest), Traced("B", Byte(k.byte))>>
    IN  IF open_socket(k) # "ok"
        THEN [err |-> open_socket(k), stream |-> "none", io |-> <<>>]
        ELSE IF ssl = "NoSsl"
        THEN [err |-> "", stream |-> "Normal", io |-> <<>>]
        ELSE IF k.byte = "N"
        THEN IF ssl = "RequireSsl"
             THEN [err |-> "NoSslSupport", stream |-> "none", io |-> asked]
             ELSE [err |-> "", stream |-> "Normal", io |-> asked]
        ELSE LET io == Append(asked, Traced("T", Handshake))
             IN  IF k.tls = "ok"
                 THEN [err |-> "", stream |-> "Ssl", io |-> io]
                 ELSE [err |-> "SslError", stream |-> "none", io |-> io]

\* A cancel_query that writes its CancelRequest twice.
cancel_query_twice(s, ssl, data, k) ==
    LET i == initialize_stream(ssl, k)
        failed == k.url = "invalid" \/ i.err # ""
        request == Traced("F", CancelRequest(data))
    IN  [s EXCEPT !.trace.sockets =
                      Append(@, IF failed THEN <<>> ELSE i.io \o <<request, request>>),
                  !.last = [op |-> "cancel_query", h |-> 0,
                            out |-> IF failed THEN "SocketError" ELSE "ok",
                            val |-> 0, ssl |-> ssl]]

\* cancel_query: the transport it opens is its own; data is the cancel data.
\* The writes and reads of each call are kept in trace.sockets, and the
\* call's ssl argument in last.
cancel_query(s, ssl, data, k) ==
    LET i == initialize_stream(ssl, k)
        out == IF k.url = "invalid" THEN "InvalidUrl"
               ELSE IF i.err # "" THEN i.err ELSE "ok"
        io == IF k.url = "invalid" THEN <<>>
              ELSE IF i.err # "" THEN i.io
              ELSE Append(i.io, Traced("F", CancelRequest(data)))
    IN  [s EXCEPT !.trace.sockets = Append(@, io),
                  !.last = [op |-> "cancel_query", h |-> 0, out |-> out,
                            val |-> 0, ssl |-> ssl]]

\* A handle_auth that sends a password whatever the backend asks for.
handle_auth_unasked(s, k) ==
    LET r == read_message(s)
        w == write_messages(r.s, <<PasswordMessage("pass")>>)
    IN  [s |-> w, err |-> IF r.msg.t = "AuthenticationOk" THEN "" ELSE "DbError"]

\* handle_auth: the error it returns, "" for None.
handle_auth(s, k) ==
    LET r == read_message(s)
        user == "user"
        pass == "pass"
        password ==
            IF r.msg.t = "AuthenticationCleartextPassword" THEN pass
            ELSE <<"md5", md5_hex(<<md5_hex(<<pass, user>>), "salt">>)>>
        w == write_messages(r.s, <<PasswordMessage(password)>>)
        r2 == read_message([w EXCEPT !.inbuf = @ \o AuthReply(k, FALSE)])
    IN  CASE r.msg.t = "AuthenticationOk" -> [s |-> r.s, err |-> ""]
          [] r.msg.t \in {"AuthenticationCleartextPassword",
                          "AuthenticationMD5Password"} ->
               IF ~k.pass THEN [s |-> r.s, err |-> "MissingPassword"]
               ELSE CASE r2.msg.t = "AuthenticationOk" -> [s |-> r2.s, err |-> ""]
                      [] r2.msg.t = "ErrorResponse" ->
                           [s |-> r2.s, err |-> "DbError"]
                      [] OTHER -> [s |-> Unexpected(r2.s, r2.msg), err |-> ""]
          [] r.msg.t \in {"AuthenticationKerberosV5",
                          "AuthenticationSCMCredential", "AuthenticationGSS",
                          "AuthenticationSSPI"} ->
               [s |-> r.s, err |-> "UnsupportedAuthentication"]
          [] r.msg.t = "ErrorResponse" -> [s |-> r.s, err |-> "DbError"]
          [] OTHER -> [s |-> Unexpected(r.s, r.msg), err |-> ""]

\* A loop that keeps the first BackendKeyData it reads.
RECURSIVE connect_loop_first(_)
connect_loop_first(s) ==
    LET r == read_message(s) IN
    CASE r.msg.t = "BackendKeyData" ->
           connect_loop_first(
               IF s.cancel_data = NoCancelData
               THEN [r.s EXCEPT !.cancel_data =
                         [process_id |-> r.msg.process_id,
                          secret_key |-> r.msg.secret_key]]
               ELSE r.s)
      [] r.msg.t = "ReadyForQuery" -> [s |-> r.s, err |-> ""]
      [] r.msg.t = "ErrorResponse" -> [s |-> r.s, err |-> "DbError"]
      [] OTHER -> [s |-> Unexpected(r.s, r.msg), err |-> ""]

\* The loop of try_connect after handle_auth.
RECURSIVE connect_loop(_)
connect_loop(s) ==
    LET r == read_message(s) IN
    CASE r.msg.t = "BackendKeyData" ->
           connect_loop([r.s EXCEPT !.cancel_data =
                             [process_id |-> r.msg.process_id,
                              secret_key |-> r.msg.secret_key]])
      [] r.msg.t = "ReadyForQuery" -> [s |-> r.s, err |-> ""]
      [] r.msg.t = "ErrorResponse" -> [s |-> r.s, err |-> "DbError"]
      [] OTHER -> [s |-> Unexpected(r.s, r.msg), err |-> ""]

\* How try_connect ends once the connection value exists (the call's ssl
\* argument and whether the URL held a password are kept in last): with the
\* connection, or with the connection dropped (Terminate written) and the
\* error returned or the task failing.
Connected(s0, s, err, ssl, k) ==
    LET out == IF Unwound(s0, s) THEN Outcome(s0, s, "ok")
               ELSE IF err # "" THEN err ELSE "ok"
        end == IF s.status = "hung" \/ out = "ok" THEN s
               ELSE [write_messages(s, <<Terminate>>) EXCEPT !.status = "closed"]
    IN  [end EXCEPT !.last = [op |-> "connect", h |-> 0, out |-> out, val |-> 0,
                              ssl |-> ssl, pass |-> k.pass]]

\* InnerPostgresConnection::try_connect.
try_connect(s, ssl, k) ==
    LET i == initialize_stream(ssl, k)
        early == IF k.url = "invalid" THEN "InvalidUrl"
                 ELSE IF k.url = "nouser" THEN "MissingUser"
                 ELSE i.err
        conn == [s EXCEPT !.status = "open", !.stream = i.stream,
                          !.trace = Log(@, i.io),
                          !.cancel_data = NoCancelData]
        w == write_messages(conn, <<StartupMessage>>)
        a == handle_auth([w EXCEPT !.inbuf = @ \o AuthReply(k, TRUE)], k)
        l == connect_loop(a.s)
    IN  IF early # ""
        THEN [s EXCEPT !.status = "closed",
                       !.trace = IF k.url = "ok" THEN Log(@, i.io) ELSE @,
                       !.last = [op |-> "connect", h |-> 0, out |-> early,
                                 val |-> 0, ssl |-> ssl, pass |-> k.pass]]
        ELSE IF a.err # "" \/ Unwound(conn, a.s)
        THEN Connected(conn, a.s, a.err, ssl, k)
        ELSE Connected(conn, l.s, l.err, ssl, k)

\* PostgresConnection::cancel_data
cancel_data_of(s) == s.cancel_data

(***************************************************************************)
(* NormalPostgresStatement and PostgresResult.                             *)
(***************************************************************************)
\* An execute without the assertion on the number of parameters.
execute_unchecked(s, sid, portal_name, row_limit, c, ins) ==
    LET s1 == Send(s, <<Bind(portal_name, StmtName(sid)),
                        Execute(portal_name, row_limit), Sync>>, c, ins)
        r == read_message(s1)
    IN  CASE r.msg.t = "BindComplete" -> [s |-> r.s, err |-> FALSE]
          [] r.msg.t = "ErrorResponse" -> [s |-> wait_for_ready(r.s), err |-> TRUE]
          [] OTHER -> [s |-> Unexpected(r.s, r.msg), err |-> FALSE]

\* An execute that checks the number of parameters only after it has
\* written its batch.
execute_checked_late(s, sid, portal_name, row_limit, c, ins) ==
    LET s1 == Send(s, <<Bind(portal_name, StmtName(sid)),
                        Execute(portal_name, row_limit), Sync>>, c, ins)
        r == read_message(s1)
    IN  IF s.stmts[sid].param_types # c.params
        THEN [s |-> Panic(s1), err |-> FALSE]
        ELSE CASE r.msg.t = "BindComplete" -> [s |-> r.s, err |-> FALSE]
               [] r.msg.t = "ErrorResponse" ->
                    [s |-> wait_for_ready(r.s), err |-> TRUE]
               [] OTHER -> [s |-> Unexpected(r.s, r.msg), err |-> FALSE]

\* NormalPostgresStatement::execute: the assertion on the number of
\* parameters, Bind + Execute + Sync, then the reply to Bind.  Returns the
\* state and whether an error value came back.
execute(s, sid, portal_name, row_limit, c, ins) ==
    IF s.stmts[sid].param_types # c.params
    THEN [s |-> Panic(s), err |-> FALSE]
    ELSE Once(read_message(Send(s, <<Bind(portal_name, StmtName(sid)),
                                     Execute(portal_name, row_limit), Sync>>,
                                c, ins)), LAMBDA r :
         CASE r.msg.t = "BindComplete" -> [s |-> r.s, err |-> FALSE]
           [] r.msg.t = "ErrorResponse" ->
                [s |-> wait_for_ready(r.s), err |-> TRUE]
           [] OTHER -> [s |-> Unexpected(r.s, r.msg), err |-> FALSE])

\* The characters before the first space: the first field, not the last.
RECURSIVE FirstField(_)
FirstField(tag) ==
    IF tag = <<>> THEN <<>>
    ELSE IF tag[1] = " " THEN <<>>
    ELSE <<tag[1]>> \o FirstField(Tail(tag))

\* tag.split(' ').last().unwrap(): the characters after the last space.
RECURSIVE LastField(_)
LastField(tag) ==
    IF tag = <<>> THEN <<>>
    ELSE IF tag[Len(tag)] = " " THEN <<>>
    ELSE Append(LastField(SubSeq(tag, 1, Len(tag) - 1)), tag[Len(tag)])

\* FromStr::from_str for uint: the value of a non-empty run of decimal
\* digits, None (-1) for anything else.
RECURSIVE from_str(_)
from_str(str) ==
    IF str = <<>> THEN -1
    ELSE IF ~IsDigit(str[Len(str)]) THEN -1
    ELSE IF Len(str) = 1 THEN DigitValue(str[1])
    ELSE LET high == from_str(SubSeq(str, 1, Len(str) - 1))
         IN  IF high = -1 THEN -1 ELSE 10 * high + DigitValue(str[Len(str)])

\* The number try_execute makes of a command tag.
tag_num(tag) ==
    LET n == from_str(LastField(tag)) IN IF n = -1 THEN 0 ELSE n

\* The read loop of PostgresStatement::try_execute.
RECURSIVE try_execute_loop(_)
try_execute_loop(s) ==
    LET r == read_message(s) IN
    CASE r.msg.t = "DataRow" -> try_execute_loop(r.s)
      [] r.msg.t = "ErrorResponse" ->
           [s |-> wait_for_ready(r.s), err |-> TRUE, num |-> 0]
      [] r.msg.t = "CommandComplete" ->
           [s |-> wait_for_ready(r.s), err |-> FALSE, num |-> tag_num(r.msg.tag)]
      [] r.msg.t = "EmptyQueryResponse" ->
           [s |-> wait_for_ready(r.s), err |-> FALSE, num |-> 0]
      [] OTHER -> [s |-> Unexpected(r.s, r.msg), err |-> FALSE, num |-> 0]

try_execute(s, sid, c, ins) ==
    Once(execute(s, sid, NoName, 0, c, ins), LAMBDA e :
    IF e.err \/ Unwound(s, e.s)
    THEN Done(s, [e.s EXCEPT !.execs = @ + 1], "try_execute", sid, "err", 0)
    ELSE Once(try_execute_loop(e.s), LAMBDA l :
         Done(s, [l.s EXCEPT !.execs = @ + 1], "try_execute", sid,
              IF l.err THEN "err" ELSE "ok", l.num)))

\* PostgresResult::read_rows on the result stream rid.
RECURSIVE read_rows_loop(_, _)
read_rows_loop(s, rid) ==
    LET r == read_message(s) IN
    CASE r.msg.t \in {"EmptyQueryResponse", "CommandComplete"} ->
           [r.s EXCEPT !.results[rid].more_rows = FALSE,
                       !.results[rid].tag = r.msg.n]
      [] r.msg.t = "PortalSuspended" ->
           [r.s EXCEPT !.results[rid].more_rows = TRUE]
      [] r.msg.t = "DataRow" ->
           read_rows_loop(
               [r.s EXCEPT !.results[rid].data = push_back(@, r.msg)], rid)
      [] OTHER -> Unexpected(r.s, r.msg)

read_rows(s, rid) ==
    LET l == read_rows_loop(s, rid) IN
    IF Unwound(s, l) THEN l ELSE wait_for_ready(l)

NewResult(row_limit) ==
    [data |-> <<>>, row_limit |-> row_limit, more_rows |-> TRUE, tag |-> -1]

\* A try_lazy_query that names its portal without advancing next_portal_id.
try_lazy_query_renamed(s, sid, row_limit, c, ins) ==
    LET id == s.stmts[sid].next_portal_id
        rid == <<sid, id>>
        e == execute(s, sid, PortalName(sid, id), row_limit, c, ins)
        s1 == [e.s EXCEPT !.results = With(@, rid, NewResult(row_limit)),
                          !.yielded = With(@, rid, <<>>),
                          !.opened = @ \cup {PortalName(sid, id)}]
    IN  IF e.err \/ Unwound(s, e.s)
        THEN Done(s, e.s, "try_lazy_query", rid, "err", 0)
        ELSE Done(s, read_rows(s1, rid), "try_lazy_query", rid, "ok", 0)

\* try_lazy_query; try_query is try_lazy_query with row_limit 0.
try_lazy_query(s, sid, row_limit, c, ins) ==
    LET id == s.stmts[sid].next_portal_id
        rid == <<sid, id>>
        s0 == [s EXCEPT !.stmts[sid].next_portal_id = @ + 1]
        e == execute(s0, sid, PortalName(sid, id), row_limit, c, ins)
        s1 == [e.s EXCEPT !.results = With(@, rid, NewResult(row_limit)),
                          !.yielded = With(@, rid, <<>>),
                          !.opened = @ \cup {PortalName(sid, id)}]
    IN  IF e.err \/ Unwound(s, e.s)
        THEN Done(s, e.s, "try_lazy_query", rid, "err", 0)
        ELSE Done(s, read_rows(s1, rid), "try_lazy_query", rid, "ok", 0)

\* A try_query that asks for the rows one at a time.
try_query_one(s, sid, c, ins) == try_lazy_query(s, sid, 1, c, ins)

\* NormalPostgresStatement::try_query.
try_query(s, sid, c, ins) == try_lazy_query(s, sid, 0, c, ins)

\* PostgresResult::execute: fetch the next batch.
result_execute(s, rid, c, ins) ==
    read_rows(Send(s, <<Execute(PortalName(rid[1], rid[2]),
                                s.results[rid].row_limit), Sync>>, c, ins),
              rid)

pop_back(q) == SubSeq(q, 1, Len(q) - 1)

pop_front(q) == Tail(q)

\* A next that fetches whenever more rows are to come.
next_ahead(s, rid, c, ins) ==
    LET r == s.results[rid]
        s1 == IF r.more_rows THEN result_execute(s, rid, c, ins) ELSE s
        d == s1.results[rid].data
    IN  IF Unwound(s, s1) THEN Done(s, s1, "next", rid, "ok", 0)
        ELSE IF d = <<>> THEN Done(s, s1, "next", rid, "ok", 0)
        ELSE Done(s, [s1 EXCEPT !.results[rid].data = pop_front(@),
                                !.yielded[rid] = Append(@, Head(d))],
                  "next", rid, "ok", 1)

\* Iterator::next of PostgresResult; val is 1 for Some(row), 0 for None.
\* A next() that asks for more whenever its buffer is empty.
next_unflagged(s, rid, c, ins) ==
    LET r == s.results[rid]
        s1 == IF r.data = <<>>
              THEN result_execute(s, rid, c, ins) ELSE s
        d == s1.results[rid].data
    IN  IF Unwound(s, s1) THEN Done(s, s1, "next", rid, "ok", 0)
        ELSE IF d = <<>> THEN Done(s, s1, "next", rid, "ok", 0)
        ELSE Done(s, [s1 EXCEPT !.results[rid].data = pop_front(@),
                                !.yielded[rid] = Append(@, Head(d))],
                  "next", rid, "ok", 1)

next(s, rid, c, ins) ==
    LET r == s.results[rid]
        s1 == IF r.data = <<>> /\ r.more_rows
              THEN result_execute(s, rid, c, ins) ELSE s
        d == s1.results[rid].data
    IN  IF Unwound(s, s1) THEN Done(s, s1, "next", rid, "ok", 0)
        ELSE IF d = <<>> THEN Done(s, s1, "next", rid, "ok", 0)
        ELSE Done(s, [s1 EXCEPT !.results[rid].data = pop_front(@),
                                !.yielded[rid] = Append(@, Head(d))],
                  "next", rid, "ok", 1)

\* An idx that takes the index for the position.
idx_zero_based(kind, i) == IF i >= 0 THEN i ELSE -1

\* RowIndex::idx for uint and for int: the position, -1 where the assertion
\* fails.  A uint is never negative.
idx(kind, i) ==
    IF kind = "uint" THEN (IF i # 0 THEN i - 1 ELSE -1)
    ELSE (IF i >= 1 THEN i - 1 ELSE -1)

\* The type of the column at a position of result_desc.
ColumnType(sid, at) == <<"ty", sid, at>>

\* The data of a row of n columns: the cell at each position.
Cells(row, n) == [c \in 1 .. n |-> <<"cell", row.n, c - 1>>]

\* FromSql::from_sql, the codec's decoding, as a term.
from_sql(ty, raw) == [ty |-> ty, raw |-> raw]

\* Index for PostgresRow: row[i] on a row the statement sid has returned.
\* The vectors result_desc and data fail on a position beyond their end.
index(s, sid, row, kind, i) ==
    LET at == idx(kind, i)
        n == s.stmts[sid].result_desc
        data == Cells(row, n)
        found == at >= 0 /\ at < n /\ at < Len(data)
        s1 == IF found THEN s ELSE Panic(s)
    IN  [s1 EXCEPT !.last =
            [op |-> "index", h |-> sid, out |-> Outcome(s, s1, "ok"),
             val |-> IF found THEN from_sql(ColumnType(sid, at), data[at + 1])
                     ELSE 0,
             i |-> i, kind |-> kind, row |-> row.n]]

\* Drop for PostgresResult.
\* A drop of a result stream that writes nothing.
drop_result_silent(s, rid, ins) ==
    Done(s, [s EXCEPT !.results = Without(@, rid),
                      !.yielded = Without(@, rid)],
         "drop_result", rid, "ok", 0)

drop_result(s, rid, ins) ==
    LET s1 == Send([s EXCEPT !.results = Without(@, rid),
                             !.yielded = Without(@, rid)],
                   <<Close("P", PortalName(rid[1], rid[2])), Sync>>,
                   NoChoice, ins)
    IN  Done(s, drain(s1), "drop_result", rid, "ok", 0)

\* A try_execute of the connection that leaks its statement: no Close.
conn_try_execute_leaked(s, c, ins) ==
    LET id == s.next_stmt_id
        p == try_prepare(s, 0, c, At(ins, 1))
        x == try_execute(p, id, c, At(ins, 2))
    IN  IF p.last.out # "ok" THEN [p EXCEPT !.last.op = "conn_try_execute"]
        ELSE [x EXCEPT !.last.op = "conn_try_execute"]

\* PostgresConnection::try_execute: prepare, execute, drop the statement.
conn_try_execute(s, c, ins) ==
    Once(try_prepare(s, 0, c, At(ins, 1)), LAMBDA p :
    IF p.last.out # "ok" THEN [p EXCEPT !.last.op = "conn_try_execute"]
    ELSE Once(try_execute(p, s.next_stmt_id, c, At(ins, 2)), LAMBDA x :
    IF Unwound(p, x) THEN [x EXCEPT !.last.op = "conn_try_execute"]
    ELSE [drop_statement(x, s.next_stmt_id, At(ins, 3))
             EXCEPT !.last = [x.last EXCEPT !.op = "conn_try_execute"]]))

(***************************************************************************)
(* PostgresTransaction.                                                    *)
(***************************************************************************)
\* PostgresConnection::transaction (parent 0) and
\* PostgresTransaction::transaction (parent: the handle it is called on).
transaction(s, parent, c, ins) ==
    LET nested == parent # 0
        id == s.next_txn_id
        s1 == quick_query(s, IF nested THEN "SAVEPOINT sp" ELSE "BEGIN", c, ins)
    IN  IF Unwound(s, s1) THEN Done(s, s1, "transaction", id, "ok", 0)
        ELSE Done(s,
                  [s1 EXCEPT
                      !.txns = With(@, id, [commit |-> TRUE, nested |-> nested,
                                            parent |-> parent, erred |-> "no"]),
                      !.next_txn_id = @ + 1,
                      !.hist = Append(@, [ev |-> IF nested THEN "nested"
                                                 ELSE "begin",
                                          h |-> id, parent |-> parent,
                                          commit |-> TRUE,
                                          failing |-> s.failing,
                                          depth |-> Len(s.bsavepoints)])],
                  "transaction", id, "ok", 0)

\* A choice of the termination query that overlooks task::failing().
EndQueryByFlag(is_failing, commit, nested) ==
    IF ~commit
    THEN IF nested THEN "ROLLBACK TO sp" ELSE "ROLLBACK"
    ELSE IF nested THEN "RELEASE sp" ELSE "COMMIT"

\* A choice of the termination query that overlooks the nested flag.
EndQueryTopLevel(is_failing, commit, nested) ==
    IF is_failing \/ ~commit THEN "ROLLBACK" ELSE "COMMIT"

\* The query Drop for PostgresTransaction issues.
EndQuery(is_failing, commit, nested) ==
    IF is_failing \/ ~commit
    THEN IF nested THEN "ROLLBACK TO sp" ELSE "ROLLBACK"
    ELSE IF nested THEN "RELEASE sp" ELSE "COMMIT"

\* A Drop for PostgresTransaction after which the handle is still there to
\* be dropped again.
drop_transaction_twice(s, id, c, ins) ==
    LET t == s.txns[id]
        s0 == [s EXCEPT !.hist = Append(@, [ev |-> "term", h |-> id,
                                            parent |-> t.parent,
                                            commit |-> t.commit,
                                            failing |-> s.failing])]
    IN  Done(s, quick_query(s0, EndQuery(s.failing, t.commit, t.nested), c, ins),
             "drop_transaction", id, "ok", 0)

\* Drop for PostgresTransaction.
drop_transaction(s, id, c, ins) ==
    LET t == s.txns[id]
        s0 == [s EXCEPT !.txns = Without(@, id),
                        !.hist = Append(@, [ev |-> "term", h |-> id,
                                            parent |-> t.parent,
                                            commit |-> t.commit,
                                            failing |-> s.failing])]
    IN  Done(s, quick_query(s0, EndQuery(s.failing, t.commit, t.nested), c, ins),
             "drop_transaction", id, "ok", 0)

will_commit(s, id) ==
    Done(s, s, "will_commit", id, "ok", IF s.txns[id].commit THEN 1 ELSE 0)

set_commit(s, id) ==
    Done(s, [s EXCEPT !.txns[id].commit = TRUE], "set_commit", id, "ok", 0)

set_rollback(s, id) ==
    Done(s, [s EXCEPT !.txns[id].commit = FALSE], "set_rollback", id, "ok", 0)

\* An execute through the transaction handle id that the backend answered
\* with ErrorResponse is remembered on the handle: "returned" when the error
\* value was returned (try_execute), "failed" when the call failed on it
\* (execute).
Erred(s, id) ==
    IF id # 0 /\ id \in DOMAIN s.txns /\ s.last.out \in {"err", "failed"}
    THEN [s EXCEPT !.txns[id].erred =
                       IF s.last.out = "err" THEN "returned" ELSE "failed"]
    ELSE s

\* PostgresNotificationIterator::next; val is the notification, 0 for None.
notifications_next(s) ==
    IF s.notifications = <<>>
    THEN Done(s, s, "notifications_next", 0, "ok", 0)
    ELSE Done(s, [s EXCEPT !.notifications = pop_front(@),
                           !.delivered = Append(@, Head(s.notifications))],
              "notifications_next", 0, "ok", Head(s.notifications))

(***************************************************************************)
(* The specification.                                                      *)
(***************************************************************************)
\* A mode selects what a specification exercises: how many asynchronous
\* frames the backend puts into its answers (with any, the shadow run is
\* kept), whether it answers with ErrorResponse, through which handles
\* statements are prepared and executed ("conn", "txn" or "any"), and the
\* bounds on statements, portals per statement, try_execute calls, rows of a
\* result, row limits, transaction handles, and parameters of a query.
AsyncLeft(m) == emitted + Len(handled) < m.async

\* Where the backend may put an asynchronous frame: none, or before frame
\* pos of the answer to the operation's batch b.
InsAt(m, batches) ==
    IF AsyncLeft(m)
    THEN {NoIns} \cup [b : 1 .. batches, pos : 1 .. MaxPos, kind : AsyncKinds]
    ELSE {NoIns}

Ins(m) == InsAt(m, 1)

\* The choices cs, each with every number of parameters of the query text.
WithTypes(m, cs) == {[c EXCEPT !.types = n] : c \in cs, n \in 0 .. m.params}

\* The choices cs, each with every number of parameters passed to the call.
WithParams(m, cs) == {[c EXCEPT !.params = n] : c \in cs, n \in 0 .. m.params}

\* The choices cs, each with every number of columns of the statement.
WithCols(m, cs) == {[c EXCEPT !.cols = n] : c \in cs, n \in 0 .. m.cols}

\* The sequences of n type OIDs, each a known type (0) or one of m.oids
\* types PostgresType::from_oid does not know.
RECURSIVE OidSeqs(_, _)
OidSeqs(m, n) ==
    IF n = 0 THEN {<<>>}
    ELSE {Append(o, x) : o \in OidSeqs(m, n - 1), x \in 0 .. m.oids}

\* The choices cs, each with every choice of types for its parameters and
\* columns and, where there are unknown types, with every answer to the
\* type query: one of two names, no row, a NULL or an error.
WithOids(m, cs) ==
    IF m.oids = 0 THEN cs
    ELSE {[c EXCEPT !.poids = p, !.coids = o, !.typname = a[1], !.q = a[2]] :
             c \in cs, p \in OidSeqs(m, m.params), o \in OidSeqs(m, m.cols),
             a \in ({"a", "b"} \X {""})
                    \cup IF m.errors
                         THEN {"a"} \X {"error", "norow", "null"} ELSE {}}

PrepChoices(m) ==
    WithOids(m,
        WithTypes(m,
            WithCols(m, {Choice("rows", "", "", 0, "")})
            \cup {Choice(p, "", "", 0, "") :
                     p \in IF m.errors THEN {"nodata", "parse_error"}
                           ELSE {"nodata"}}))

\* The characters of the command tags the backend may choose.
TagChars == {"U", "1", "2", " ", "\t"}

RECURSIVE Tags(_)
Tags(n) ==
    IF n = 0 THEN {<<>>}
    ELSE LET shorter == Tags(n - 1)
         IN  shorter \cup {Append(g, ch) : g \in shorter, ch \in TagChars}

\* The choices cs, and each with every command tag of up to m.tag characters.
WithTags(m, cs) ==
    cs \cup IF m.tag = 0 THEN {}
            ELSE {[c EXCEPT !.tagged = TRUE, !.tag = g] :
                     c \in cs, g \in Tags(m.tag)}

ExecChoices(m) ==
    WithParams(m,
        WithTags(m, {Choice("nodata", "ok", "ok", r, "") : r \in 0 .. m.rows})
        \cup (IF m.empty THEN {Choice("nodata", "ok", "empty", 0, "")} ELSE {})
        \cup IF m.errors
             THEN {Choice("nodata", "error", "", 0, "")}
                  \cup {Choice("nodata", "ok", "error", r, "") :
                            r \in 0 .. m.rows}
             ELSE {})

FetchChoices(m) ==
    {Choice("", "", e, 0, "") : e \in IF m.errors THEN {"ok", "error"} ELSE {"ok"}}

QueryChoices(m) ==
    {Choice("", "", "", 0, q) : q \in IF m.errors THEN {"ok", "error"} ELSE {"ok"}}

HasError(c) ==
    c.prep = "parse_error" \/ c.bind = "error"
    \/ c.exec = "error" \/ c.q = "error"

\* The call forms: the try_ form, and where the backend answers with an
\* error also the form that fails on it.
Forms(c) == IF HasError(c) THEN BOOLEAN ELSE {FALSE}

\* The state of a connection just made; tracing: whether the trace is kept.
\* The state with the connection in status st: "open" after a connect that
\* read no BackendKeyData over a plain stream, "new" before the connect.
StartAs(tracing, st) ==
    /\ inbuf = <<>>
    /\ written = <<>>
    /\ next_stmt_id = 0
    /\ notifications = <<>>
    /\ failing = FALSE
    /\ status = st
    /\ stmts = Empty
    /\ results = Empty
    /\ txns = Empty
    /\ next_txn_id = 1
    /\ bportals = Empty
    /\ bsavepoints = <<>>
    /\ emitted = 0
    /\ seen = <<>>
    /\ delivered = <<>>
    /\ handled = <<>>
    /\ notice_handler = 0
    /\ unknown_types = Empty
    /\ yielded = Empty
    /\ execs = 0
    /\ opened = {}
    /\ hist = <<>>
    /\ last = [op |-> IF st = "new" THEN "none" ELSE "connect", h |-> 0,
                          out |-> "ok", val |-> 0]
    /\ trace = [on |-> tracing, log |-> <<>>, sockets |-> <<>>]
    /\ cancel_data = NoCancelData
    /\ stream = IF st = "new" THEN "none" ELSE "Normal"
    /\ shadow = [inbuf |-> <<>>, written |-> <<>>, next_stmt_id |-> 0,
                 notifications |-> <<>>, failing |-> FALSE, status |-> st,
                 stmts |-> Empty, results |-> Empty, txns |-> Empty,
                 next_txn_id |-> 1, bportals |-> Empty, bsavepoints |-> <<>>,
                 emitted |-> 0,
                 seen |-> <<>>, delivered |-> <<>>, handled |-> <<>>,
                 notice_handler |-> 0, unknown_types |-> Empty,
                 yielded |-> Empty, execs |-> 0, opened |-> {},
                 hist |-> <<>>,
                 last |-> [op |-> IF st = "new" THEN "none" ELSE "connect", h |-> 0,
                          out |-> "ok", val |-> 0],
                 trace |-> [on |-> tracing, log |-> <<>>, sockets |-> <<>>],
                 cancel_data |-> NoCancelData,
                 stream |-> IF st = "new" THEN "none" ELSE "Normal"]

Start(tracing) == StartAs(tracing, "open")

Init == Start(FALSE)

InitTraced == Start(TRUE)

\* The caller's code runs only while the task is alive and not unwinding.
Running == status = "open" /\ ~failing

\* Destructors run as well while the task unwinds.
Dropping == status = "open"

\* One operation, run on the program state with the asynchronous frame ins
\* and, where the mode keeps the shadow run, on the shadow without it.
Both(m, Op(_, _), ins) ==
    /\ \E n \in {Op(State, ins)} : Install(n)
    /\ shadow' = IF m.async > 0 THEN Op(shadow, NoIns) ELSE shadow

Handles(m) ==
    CASE m.via = "conn" -> {0}
      [] m.via = "txn" -> DOMAIN txns
      [] OTHER -> {0} \cup DOMAIN txns

Limits(m, sid) == IF stmts[sid].txn = 0 THEN {0} ELSE 0 .. m.limit

\* Whether a query with this row limit is made by try_query / query (TRUE)
\* or by try_lazy_query / lazy_query, which only a statement prepared through
\* a transaction offers.
Eager(sid, row_limit) ==
    IF stmts[sid].txn = 0 THEN {TRUE}
    ELSE IF row_limit = 0 THEN BOOLEAN ELSE {FALSE}

\* try_prepare and prepare, on the connection or through a transaction.
Prepare(m) ==
    /\ Running
    /\ next_stmt_id < m.stmts
    /\ \E txn \in Handles(m), ins \in Ins(m), c \in PrepChoices(m) :
          \E strict \in Forms(c) :
             Both(m, LAMBDA s, i : Strict(s, try_prepare(s, txn, c, i), strict),
                  ins)

\* try_execute and execute on a statement.
StmtExecute(m) ==
    /\ Running
    /\ execs < m.execs
    /\ \E sid \in DOMAIN stmts, ins \in Ins(m), c \in ExecChoices(m) :
          \E strict \in Forms(c) :
             Both(m, LAMBDA s, i :
                         Erred(Strict(s, try_execute(s, sid, c, i), strict),
                               stmts[sid].txn),
                  ins)

\* try_query / query (row_limit 0) and try_lazy_query / lazy_query.
StmtQuery(m) ==
    /\ Running
    /\ \E sid \in DOMAIN stmts, ins \in Ins(m), c \in ExecChoices(m) :
          /\ stmts[sid].next_portal_id < m.portals
          /\ \E row_limit \in Limits(m, sid), strict \in Forms(c) :
                \E eager \in Eager(sid, row_limit) :
                   Both(m, LAMBDA s, i :
                               Strict(s,
                                      IF eager THEN try_query(s, sid, c, i)
                                      ELSE try_lazy_query(s, sid, row_limit,
                                                          c, i),
                                      strict),
                        ins)

ResultNext(m) ==
    /\ Running
    /\ \E rid \in DOMAIN results, ins \in Ins(m), c \in FetchChoices(m) :
          Both(m, LAMBDA s, i : next(s, rid, c, i), ins)

\* row[i] on a row a live result stream has yielded.
RowIndex(m) ==
    /\ Running
    /\ \E rid \in DOMAIN yielded, kind \in {"uint", "int"} :
          \E k \in 1 .. Len(yielded[rid]),
             i \in (IF kind = "uint" THEN 0 ELSE -1) .. m.cols + 1 :
             Both(m, LAMBDA s, x : index(s, rid[1], yielded[rid][k], kind, i),
                  NoIns)

DropResult(m) ==
    /\ Dropping
    /\ \E rid \in DOMAIN results, ins \in Ins(m) :
          Both(m, LAMBDA s, i : drop_result(s, rid, i), ins)

DropStatement(m) ==
    /\ Dropping
    /\ \E id \in DOMAIN stmts, ins \in Ins(m) :
          /\ \A r \in DOMAIN results : r[1] # id
          /\ Both(m, LAMBDA s, i : drop_statement(s, id, i), ins)

\* try_execute and execute of the connection or of a transaction handle.
ConnExecute(m) ==
    /\ Running
    /\ next_stmt_id < m.stmts
    /\ \E via \in Handles(m), ins \in InsAt(m, 3),
          c \in WithTypes(m, ExecChoices(m)
                               \cup {Choice("parse_error", "", "", 0, "")}) :
          /\ m.errors \/ ~HasError(c)
          /\ \E strict \in Forms(c) :
                Both(m, LAMBDA s, i :
                            Erred(Strict(s, conn_try_execute(s, c, i), strict),
                                  via),
                     ins)

Begin(m) ==
    /\ Running
    /\ next_txn_id <= m.txns
    /\ \E parent \in {0} \cup DOMAIN txns, ins \in Ins(m), c \in QueryChoices(m) :
          Both(m, LAMBDA s, i : transaction(s, parent, c, i), ins)

DropTransaction(m) ==
    /\ Dropping
    /\ \E id \in DOMAIN txns, ins \in Ins(m), c \in QueryChoices(m) :
          /\ \A sid \in DOMAIN stmts : stmts[sid].txn # id
          /\ Both(m, LAMBDA s, i : drop_transaction(s, id, c, i), ins)

WillCommit(m) ==
    /\ Running
    /\ \E id \in DOMAIN txns : Both(m, LAMBDA s, i : will_commit(s, id), NoIns)

SetCommit(m) ==
    /\ Running
    /\ \E id \in DOMAIN txns : Both(m, LAMBDA s, i : set_commit(s, id), NoIns)

SetRollback(m) ==
    /\ Running
    /\ \E id \in DOMAIN txns : Both(m, LAMBDA s, i : set_rollback(s, id), NoIns)

NotificationsNext(m) ==
    /\ Running
    /\ Both(m, LAMBDA s, i : notifications_next(s), NoIns)

SetNoticeHandler(m) ==
    /\ Running
    /\ \E handler \in 0 .. MaxHandlers :
          Both(m, LAMBDA s, i : set_notice_handler(s, handler), NoIns)

DropConnection(m) ==
    /\ Dropping
    /\ DOMAIN stmts = {}
    /\ DOMAIN txns = {}
    /\ \E io \in IF m.errors THEN {"ok", "error"} ELSE {"ok"} :
          Both(m, LAMBDA s, i : drop_connection(s, io), NoIns)

\* Every operation, with asynchronous frames and backend errors.
Full ==
    [async |-> Few, errors |-> TRUE, via |-> "any", stmts |-> Few,
     portals |-> Few, execs |-> Few, rows |-> Few, limit |-> Few, txns |-> Few, params |-> 0,
     tag |-> 0, empty |-> FALSE, cols |-> 0, oids |-> 0]

Next ==
    \/ Prepare(Full)
    \/ StmtExecute(Full)
    \/ StmtQuery(Full)
    \/ ResultNext(Full)
    \/ DropResult(Full)
    \/ DropStatement(Full)
    \/ ConnExecute(Full)
    \/ Begin(Full)
    \/ DropTransaction(Full)
    \/ WillCommit(Full)
    \/ SetCommit(Full)
    \/ SetRollback(Full)
    \/ NotificationsNext(Full)
    \/ DropConnection(Full)

Spec == Init /\ [][Next]_vars

\* Statements and result streams of the connection, the backend answering
\* with errors as well.
Stmt ==
    [async |-> 0, errors |-> TRUE, via |-> "conn", stmts |-> MaxStmts,
     portals |-> MaxPortals, execs |-> MaxExecs, rows |-> Few, limit |-> 0,
     txns |-> 0, params |-> 0,
     tag |-> 0, empty |-> FALSE, cols |-> 0, oids |-> 0]

NextStmt ==
    \/ Prepare(Stmt)
    \/ StmtExecute(Stmt)
    \/ StmtQuery(Stmt)
    \/ ResultNext(Stmt)
    \/ DropResult(Stmt)
    \/ DropStatement(Stmt)
    \/ DropConnection(Stmt)

SpecStmt == Init /\ [][NextStmt]_vars

\* Lazy result streams of a statement prepared in a transaction.
Lazy ==
    [async |-> 0, errors |-> TRUE, via |-> "txn", stmts |-> Few,
     portals |-> Few, execs |-> 0, rows |-> MaxRows, limit |-> MaxLimit,
     txns |-> Few, params |-> 0,
     tag |-> 0, empty |-> FALSE, cols |-> 0, oids |-> 0]

NextLazy ==
    \/ Begin(Lazy)
    \/ Prepare(Lazy)
    \/ StmtQuery(Lazy)
    \/ ResultNext(Lazy)
    \/ DropResult(Lazy)
    \/ DropStatement(Lazy)
    \/ DropTransaction(Lazy)
    \/ DropConnection(Lazy)

SpecLazy == Init /\ [][NextLazy]_vars

\* The same on a traced transport.
SpecLazyTraced == InitTraced /\ [][NextLazy]_vars

\* Transaction handles and the one-shot execute through them.
Txn ==
    [async |-> 0, errors |-> TRUE, via |-> "txn", stmts |-> Few,
     portals |-> 0, execs |-> 0, rows |-> 0, limit |-> 0, txns |-> MaxTxns, params |-> 0,
     tag |-> 0, empty |-> FALSE, cols |-> 0, oids |-> 0]

NextTxn ==
    \/ Begin(Txn)
    \/ ConnExecute(Txn)
    \/ WillCommit(Txn)
    \/ SetCommit(Txn)
    \/ SetRollback(Txn)
    \/ DropTransaction(Txn)
    \/ DropConnection(Txn)

SpecTxn == Init /\ [][NextTxn]_vars

\* Asynchronous frames in the answers to every operation.
Async ==
    [async |-> MaxAsync, errors |-> TRUE, via |-> "any", stmts |-> Few,
     portals |-> Few, execs |-> Few, rows |-> Few, limit |-> Few, txns |-> Few, params |-> 0,
     tag |-> 0, empty |-> FALSE, cols |-> 0, oids |-> 0]

NextAsync ==
    \/ Prepare(Async)
    \/ StmtExecute(Async)
    \/ StmtQuery(Async)
    \/ ResultNext(Async)
    \/ DropResult(Async)
    \/ DropStatement(Async)
    \/ ConnExecute(Async)
    \/ Begin(Async)
    \/ DropTransaction(Async)
    \/ NotificationsNext(Async)
    \/ DropConnection(Async)

SpecAsync == Init /\ [][NextAsync]_vars

\* Calls that pass a number of parameters that may differ from the number
\* of parameter types of the statement; the backend answers without errors.
Arity ==
    [async |-> 0, errors |-> FALSE, via |-> "any", stmts |-> Few,
     portals |-> Few, execs |-> Few, rows |-> Few, limit |-> Few, txns |-> Few,
     params |-> MaxParams,
     tag |-> 0, empty |-> FALSE, cols |-> 0, oids |-> 0]

NextArity ==
    \/ Begin(Arity)
    \/ Prepare(Arity)
    \/ StmtExecute(Arity)
    \/ StmtQuery(Arity)
    \/ ConnExecute(Arity)
    \/ ResultNext(Arity)
    \/ DropResult(Arity)
    \/ DropStatement(Arity)
    \/ DropTransaction(Arity)
    \/ DropConnection(Arity)

SpecArity == Init /\ [][NextArity]_vars

\* try_execute and execute with the command tags a backend may send and the
\* empty query, on a traced transport.
Tag ==
    [async |-> 0, errors |-> TRUE, via |-> "conn", stmts |-> Few,
     portals |-> 0, execs |-> Few, rows |-> Few, limit |-> 0, txns |-> 0,
     params |-> 0,
     tag |-> MaxTag, empty |-> TRUE, cols |-> 0, oids |-> 0]

NextTag ==
    \/ Prepare(Tag)
    \/ StmtExecute(Tag)
    \/ ConnExecute(Tag)
    \/ DropStatement(Tag)
    \/ DropConnection(Tag)

SpecTag == InitTraced /\ [][NextTag]_vars

\* The environment's choices for a connect or a cancel_query.
SslModes == {"NoSsl", "PreferSsl", "RequireSsl"}

NetChoices ==
    [url : {"ok", "invalid", "nouser"}, sock : {"ok", "DnsError", "SocketError"},
     byte : {"S", "N", "E"}, tls : {"ok", "SslError"}]

KeyData == {[process_id |-> 1, secret_key |-> 2],
            [process_id |-> 3, secret_key |-> 4]}

RECURSIVE KeySeqs(_)
KeySeqs(n) ==
    IF n = 0 THEN {<<>>}
    ELSE LET shorter == KeySeqs(n - 1)
         IN  shorter \cup {Append(q, d) : q \in shorter, d \in KeyData}

AuthKinds ==
    {"AuthenticationOk", "AuthenticationCleartextPassword",
     "AuthenticationMD5Password", "AuthenticationKerberosV5",
     "AuthenticationSCMCredential", "AuthenticationGSS", "AuthenticationSSPI"}

AuthChoices ==
    [pass : BOOLEAN, auth : AuthKinds \cup {"ErrorResponse", "NoData"},
     auth2 : {"AuthenticationOk", "ErrorResponse", "NoData"},
     status : BOOLEAN, keys : KeySeqs(MaxKeys),
     end : {"ReadyForQuery", "ErrorResponse", "NoData"}]

\* PostgresConnection::try_connect.
Connect(m) ==
    /\ status = "new"
    /\ \E ssl \in SslModes, n \in NetChoices, a \in AuthChoices :
          Both(m, LAMBDA s, i : try_connect(s, ssl, n @@ a), NoIns)

\* cancel_query with the cancel data of the connection.
CancelQuery(m) ==
    /\ status = "open"
    /\ Len(trace.sockets) < MaxCancels
    /\ \E ssl \in SslModes, n \in NetChoices :
          Both(m, LAMBDA s, i : cancel_query(s, ssl, cancel_data_of(s), n), NoIns)

\* Connecting, the operations of the connection, and cancelling.
Conn ==
    [async |-> 0, errors |-> FALSE, via |-> "any", stmts |-> Few,
     portals |-> 0, execs |-> Few, rows |-> Few, limit |-> 0, txns |-> Few,
     params |-> 0,
     tag |-> 0, empty |-> FALSE, cols |-> 0, oids |-> 0]

NextConnect ==
    \/ Connect(Conn)
    \/ CancelQuery(Conn)
    \/ Prepare(Conn)
    \/ StmtExecute(Conn)
    \/ DropStatement(Conn)
    \/ DropConnection(Conn)

InitConnect == StartAs(TRUE, "new")

SpecConnect == InitConnect /\ [][NextConnect]_vars

\* Rows of statements of up to MaxCols columns and access to their columns.
Row ==
    [async |-> 0, errors |-> FALSE, via |-> "conn", stmts |-> Few,
     portals |-> Few, execs |-> 0, rows |-> MaxRows, limit |-> 0, txns |-> 0,
     params |-> 0,
     tag |-> 0, empty |-> FALSE, cols |-> MaxCols, oids |-> 0]

NextRow ==
    \/ Prepare(Row)
    \/ StmtQuery(Row)
    \/ ResultNext(Row)
    \/ RowIndex(Row)
    \/ DropResult(Row)
    \/ DropStatement(Row)
    \/ DropConnection(Row)

SpecRow == Init /\ [][NextRow]_vars

\* Asynchronous frames and the notice handlers that receive the notices.
Notice ==
    [async |-> MaxAsync, errors |-> FALSE, via |-> "conn", stmts |-> Few,
     portals |-> 0, execs |-> Few, rows |-> 0, limit |-> 0, txns |-> 0,
     params |-> 0,
     tag |-> 0, empty |-> FALSE, cols |-> 0, oids |-> 0]

NextNotice ==
    \/ Prepare(Notice)
    \/ StmtExecute(Notice)
    \/ SetNoticeHandler(Notice)
    \/ NotificationsNext(Notice)
    \/ DropStatement(Notice)
    \/ DropConnection(Notice)

SpecNotice == Init /\ [][NextNotice]_vars

\* Several statements, each with several result streams, so that statement
\* and portal names are taken more than once.
Names ==
    [async |-> 0, errors |-> TRUE, via |-> "conn", stmts |-> MaxNames,
     portals |-> MaxNames, execs |-> 0, rows |-> 0, limit |-> 0, txns |-> 0,
     params |-> 0,
     tag |-> 0, empty |-> FALSE, cols |-> 0, oids |-> 0]

NextNames ==
    \/ Prepare(Names)
    \/ StmtQuery(Names)
    \/ DropResult(Names)
    \/ DropStatement(Names)
    \/ DropConnection(Names)

SpecNames == Init /\ [][NextNames]_vars

\* Statements with parameters and columns of types from_oid does not know.
Types ==
    [async |-> 0, errors |-> TRUE, via |-> "conn", stmts |-> MaxNames,
     portals |-> 0, execs |-> 0, rows |-> 0, limit |-> 0, txns |-> 0,
     params |-> MaxParams,
     tag |-> 0, empty |-> FALSE, cols |-> Few, oids |-> MaxOids]

NextTypes ==
    \/ Prepare(Types)
    \/ DropStatement(Types)
    \/ DropConnection(Types)

SpecTypes == InitTraced /\ [][NextTypes]_vars

\* Lazy result streams of a backend that answers without errors, iterated
\* by a caller that keeps calling next(): a for loop over the result stream.
Iter ==
    [async |-> 0, errors |-> FALSE, via |-> "txn", stmts |-> Few,
     portals |-> MaxNames, execs |-> 0, rows |-> MaxRows, limit |-> MaxLimit,
     txns |-> Few, params |-> 0,
     tag |-> 0, empty |-> FALSE, cols |-> 0, oids |-> 0]

NextIter ==
    \/ Begin(Iter)
    \/ Prepare(Iter)
    \/ StmtQuery(Iter)
    \/ ResultNext(Iter)
    \/ DropResult(Iter)
    \/ DropStatement(Iter)
    \/ DropTransaction(Iter)
    \/ DropConnection(Iter)

\* ENABLED <<ResultNext(Iter)>>_vars: some next() would change the state.
CanNext ==
    /\ Running
    /\ \E rid \in DOMAIN results, ins \in Ins(Iter), c \in FetchChoices(Iter) :
          next(State, rid, c, ins) # State

\* The caller's loop does not stop while a next() has something left to
\* do: WF_vars(ResultNext(Iter)), written out with its enabling condition
\* (only ResultNext leaves last.op = "next").
IterFair == []<>(~CanNext) \/ []<><<last'.op = "next">>_vars

SpecIter == Init /\ [][NextIter]_vars /\ IterFair

(***************************************************************************)
(* The claims.                                                             *)
(***************************************************************************)
Frames(kind) == {i \in 1 .. Len(written) : written[i].t = kind}

\* The names try_prepare and try_lazy_query have allocated: every name is
\* used in the Parse or the Bind written right after its allocation.
Allocated ==
    {written[i].name : i \in Frames("Parse")}
    \cup {written[i].name : i \in {j \in Frames("Bind") : written[j].name # NoName}}

CloseCount(name) ==
    Cardinality({i \in Frames("Close") : written[i].name = name})

LiveNames ==
    {StmtName(id) : id \in DOMAIN stmts}
    \cup {PortalName(rid[1], rid[2]) : rid \in DOMAIN results}

Returned == last.out \in {"ok", "err"}

\* C1: every time an operation hands control back to the caller the
\* connection is Ready: no reply frame is left unread on the stream (every
\* Sync or Query written has had its ReadyForQuery consumed).
C1_ReadyAfterEveryOperation ==
    (status = "open" /\ Returned) => inbuf = <<>>

\* C2: an extended-query operation (try_prepare, try_execute, try_query,
\* try_lazy_query, a row fetch of next) that the backend answers with
\* ErrorResponse returns an error value and does not abort; the connection
\* is left Ready for the next operation.
C2_ErrorResponseIsReturned ==
    last.op \in {"try_prepare", "try_execute", "try_lazy_query", "next",
                 "conn_try_execute"}
    => (last.out \in {"ok", "err", "failed"} /\ inbuf = <<>>)

\* C3 as claimed: when the connection writes Terminate, exactly one Close
\* frame has been written for every allocated statement or portal name,
\* whether its Parse or Bind succeeded or was answered with ErrorResponse.
C3_OneClosePerAllocatedName ==
    status = "closed" => \A name \in Allocated : CloseCount(name) = 1

\* C3 as amended: exactly one Close frame is written for every name a handle
\* was made for (the statement try_prepare returned, the result stream
\* constructed after BindComplete), when that handle is dropped, and so
\* before Terminate; a name whose Parse or Bind was answered with
\* ErrorResponse gets no Close frame.
C3_OneClosePerHandle ==
    /\ \A name \in Allocated :
          CloseCount(name) =
              IF name \in opened /\ name \notin LiveNames THEN 1 ELSE 0
    /\ opened \subseteq Allocated
    /\ status = "closed" =>
          (LiveNames = {} /\ written[Len(written)] = Terminate)

C3_Witness ==
    /\ status = "closed"
    /\ ~failing
    /\ \E name \in opened : Len(name) = 4 /\ CloseCount(name) = 1
    /\ \E name \in opened : Len(name) = 2 /\ CloseCount(name) = 1
    /\ \E name \in Allocated \ opened : CloseCount(name) = 0

\* C4: the rows a result stream has yielded, followed by the rows it still
\* buffers, are the DataRow frames the backend has sent for its portal, in
\* order; and once the stream has read CommandComplete and is drained, the
\* yielded rows are the whole result and their number is the tag's count.
C4_RowsInOrder ==
    \A rid \in DOMAIN results :
        LET portal == PortalName(rid[1], rid[2])
            r == results[rid]
        IN  /\ portal \in DOMAIN bportals
            /\ yielded[rid] \o r.data = Rows(portal, 1, bportals[portal].pos)
            /\ (~r.more_rows /\ r.data = <<>>) =>
                  /\ yielded[rid] = Rows(portal, 1, bportals[portal].total)
                  /\ Len(yielded[rid]) = r.tag

C4_Witness ==
    \E rid \in DOMAIN results :
        /\ results[rid].row_limit = 2
        /\ ~results[rid].more_rows
        /\ results[rid].data = <<>>
        /\ Len(yielded[rid]) = 3
        /\ last.op = "next" /\ last.val = 0

\* C5: the notifications the iterator has returned, followed by those still
\* queued, are the NotificationResponse frames read so far, in the order the
\* backend emitted them.
C5_NotificationsInOrder ==
    /\ delivered \o notifications = seen
    /\ Len(seen) <= emitted
    /\ \A i \in 1 .. Len(seen) : seen[i] = i

C5_Witness ==
    /\ Len(delivered) = 2
    /\ \E i \in Frames("Close") : TRUE
    /\ \E i \in Frames("Query") : TRUE

\* What a run shows its caller apart from notifications: the outcome of its
\* last operation, the frames written, the rows yielded and buffered, the
\* handles, and the reply frames left unread.
IsAsync(f) == f.t \in AsyncKinds

NotAsync(f) == ~IsAsync(f)

Visible(s) ==
    [last |-> IF s.last.op = "notifications_next"
              THEN [s.last EXCEPT !.val = 0] ELSE s.last,
     written |-> s.written, yielded |-> s.yielded, results |-> s.results,
     stmts |-> s.stmts, txns |-> s.txns, failing |-> s.failing,
     status |-> s.status, inbuf |-> SelectSeq(s.inbuf, NotAsync)]

\* C6: with asynchronous frames inserted between the reply frames, every
\* operation's result, the rows yielded and the frames written are those of
\* the run without the inserted frames, and the notification queue has
\* gained exactly the inserted notifications, in order: every notification
\* the backend has inserted so far has been read into the queue.
C6_AsyncFramesAbsorbed ==
    /\ Visible(State) = Visible(shadow)
    /\ shadow.notifications = <<>>
    /\ delivered \o notifications = [i \in 1 .. emitted |-> i]

\* The rest of C6, which the code keeps: the run without the inserted frames
\* is matched, and while the task is not failing every inserted
\* notification has been read into the queue.
C6_AbsorbedWhileRunning ==
    /\ Visible(State) = Visible(shadow)
    /\ shadow.notifications = <<>>
    /\ Running => delivered \o notifications = [i \in 1 .. emitted |-> i]

\* The step terminates the transaction handle id with the query q.
Terminates(id, q) ==
    /\ id \in DOMAIN txns
    /\ id \notin DOMAIN txns'
    /\ written' = Append(written, Query(q))

\* C7: a terminating transaction handle writes exactly one simple query,
\* chosen by (commit flag and task not failing): COMMIT or ROLLBACK for a
\* top-level handle, RELEASE sp or ROLLBACK TO sp for a nested one.  The
\* flag is true on a fresh handle, changes only by set_commit and
\* set_rollback, which set it to true and to false, and is what will_commit
\* returns.
C7_TerminationQuery ==
    [][/\ \A id \in DOMAIN txns \ DOMAIN txns' :
             Terminates(id,
                 IF txns[id].commit /\ ~failing
                 THEN IF txns[id].nested THEN "RELEASE sp" ELSE "COMMIT"
                 ELSE IF txns[id].nested THEN "ROLLBACK TO sp" ELSE "ROLLBACK")
       /\ \A id \in DOMAIN txns' \ DOMAIN txns : txns'[id].commit
       /\ \A id \in DOMAIN txns \cap DOMAIN txns' :
             txns'[id].commit # txns[id].commit =>
                 last'.op \in {"set_commit", "set_rollback"} /\ last'.h = id
       /\ last'.op = "set_commit" => txns'[last'.h].commit
       /\ last'.op = "set_rollback" => ~txns'[last'.h].commit
       /\ last'.op = "will_commit" =>
             last'.val = (IF txns[last'.h].commit THEN 1 ELSE 0)]_vars

\* The queries the terminated handles have issued so far.
TermEvents == {i \in 1 .. Len(hist) : hist[i].ev = "term"}

C7_Witness ==
    /\ \E i \in TermEvents : hist[i].commit /\ hist[i].failing
    /\ \E i \in TermEvents : ~hist[i].commit /\ ~hist[i].failing
    /\ \E i \in Frames("Query") : written[i].q = "RELEASE sp"
    /\ \E i \in Frames("Query") : written[i].q = "ROLLBACK TO sp"
    /\ \E i \in Frames("Query") : written[i].q = "ROLLBACK"
    /\ last.op = "drop_transaction"

\* C8 as claimed: a top-level handle through which an execute or a
\* try_execute was answered with ErrorResponse issues ROLLBACK when it
\* terminates.
C8_ErrorMeansRollback ==
    [][\A id \in DOMAIN txns \ DOMAIN txns' :
          (~txns[id].nested /\ txns[id].erred # "no") =>
              Terminates(id, "ROLLBACK")]_vars

\* C8 as amended: a top-level handle whose execute failed on the
\* ErrorResponse issues ROLLBACK when it terminates (the task is failing);
\* a handle whose try_execute returned the error issues COMMIT all the same,
\* unless its flag was set to roll back or the task is failing.
C8_FailedExecuteMeansRollback ==
    [][\A id \in DOMAIN txns \ DOMAIN txns' :
          /\ (~txns[id].nested /\ txns[id].erred = "failed") =>
                Terminates(id, "ROLLBACK")
          /\ (~txns[id].nested /\ txns[id].erred = "returned") =>
                Terminates(id, IF txns[id].commit /\ ~failing
                               THEN "COMMIT" ELSE "ROLLBACK")]_vars

C8_Witness ==
    /\ last.op = "drop_transaction"
    /\ last.out = "ok"
    /\ failing
    /\ Len(hist) = 2
    /\ hist[1].ev = "begin"
    /\ hist[2].ev = "term" /\ hist[2].commit
    /\ written[Len(written)] = Query("ROLLBACK")
    /\ \E i \in Frames("Bind") : TRUE

\* The texts of the simple queries written, in order.
SimpleQueries ==
    LET IsQuery(f) == f.t = "Query"
        qs == SelectSeq(written, IsQuery)
    IN  [i \in 1 .. Len(qs) |-> qs[i].q]

Begun == Cardinality({i \in 1 .. Len(hist) : hist[i].ev # "term"})

\* The handles so far are one scoped nesting: a top-level handle, each
\* further handle begun on the one before it, and the handles terminated so
\* far are the innermost ones, innermost first, each with commit set and the
\* task not failing.
Scoped ==
    /\ Len(hist) >= 1
    /\ Len(hist) <= 2 * Begun
    /\ hist[1].ev = "begin"
    /\ \A i \in 2 .. Begun :
          hist[i].ev = "nested" /\ hist[i].parent = hist[i - 1].h
    /\ \A j \in 1 .. Len(hist) - Begun :
          /\ hist[Begun + j].ev = "term"
          /\ hist[Begun + j].h = hist[Begun - j + 1].h
          /\ hist[Begun + j].commit
          /\ ~hist[Begun + j].failing

\* The i-th query of a scoped nesting of Begun handles.
ScopedQuery(i) ==
    IF i = 1 THEN "BEGIN"
    ELSE IF i <= Begun THEN "SAVEPOINT sp"
    ELSE IF i < 2 * Begun THEN "RELEASE sp"
    ELSE "COMMIT"

\* C9: in a scoped nesting of depth k where every handle exits normally with
\* commit set, the simple queries written are BEGIN, k times SAVEPOINT sp,
\* k times RELEASE sp, COMMIT, in this order, and after each begin and each
\* termination the reply has been read up to its ReadyForQuery.
C9_ScopedNesting ==
    (Scoped /\ ~failing) =>
        /\ SimpleQueries = [i \in 1 .. Len(hist) |-> ScopedQuery(i)]
        /\ inbuf = <<>>

C9_Witness ==
    /\ Scoped
    /\ ~failing
    /\ Begun = 3
    /\ Len(hist) = 6
    /\ last.op = "drop_transaction"

\* C10: terminating a transaction handle never raises a failure, whatever
\* the backend answers to the query of the termination.
C10_TerminationNeverFails ==
    last.op = "drop_transaction" => last.out = "ok"

\* The handles begun and not terminated up to event n of hist.
LiveAt(n) ==
    {hist[i].h : i \in {j \in 1 .. n : hist[j].ev # "term"}}
    \ {hist[i].h : i \in {j \in 1 .. n : hist[j].ev = "term"}}

UnlimitedBinds ==
    {i \in Frames("Bind") : written[i].name # NoName /\ written[i + 1].n = 0}

\* C12: a lazy query with row_limit 0 is the eager query: from every state
\* both leave the same state (the same frames written, the same rows, the
\* same outcome); the frames are one Bind, one Execute with max_rows 0 and
\* Sync, no other Execute is ever written for the portal, and the stream
\* has read no PortalSuspended: it expects no more rows and holds the whole
\* result.
C12_LazyZeroIsEager ==
    /\ \A sid \in DOMAIN stmts, c \in ExecChoices(Lazy) :
          Running =>
              try_lazy_query(State, sid, 0, c, NoIns)
                  = try_query(State, sid, c, NoIns)
    /\ \A i \in UnlimitedBinds :
          /\ written[i + 1] = Execute(written[i].name, 0)
          /\ written[i + 2] = Sync
          /\ \A j \in Frames("Execute") :
                written[j].name = written[i].name => j = i + 1
          /\ \A j \in Frames("Bind") :
                written[j].name = written[i].name => j = i
    /\ \A rid \in DOMAIN results :
          (results[rid].row_limit = 0 /\ ~failing) =>
              /\ ~results[rid].more_rows
              /\ yielded[rid] \o results[rid].data
                     = Rows(PortalName(rid[1], rid[2]), 1,
                            bportals[PortalName(rid[1], rid[2])].total)

C12_Witness ==
    \E rid \in DOMAIN results :
        /\ stmts[rid[1]].txn # 0
        /\ results[rid].row_limit = 0
        /\ Len(yielded[rid]) = MaxRows
        /\ last.op = "next" /\ last.val = 0
        /\ UnlimitedBinds # {}

ExecutesOf(portal) ==
    {i \in Frames("Execute") : written[i].name = portal}

\* C13: the row buffer of a lazy result stream with row_limit L > 0 never
\* holds more than L rows, and next() writes a further Execute(portal, L)
\* and Sync, and nothing else, only when the buffer is empty and the batch
\* before ended with PortalSuspended (more_rows is set).
C13_BufferWithinLimit ==
    /\ [](\A rid \in DOMAIN results :
             results[rid].row_limit > 0 =>
                 Len(results[rid].data) <= results[rid].row_limit)
    /\ [][(last'.op = "next" /\ written' # written) =>
             LET rid == last'.h
                 r == results[rid]
             IN  /\ r.row_limit > 0
                 /\ r.data = <<>>
                 /\ r.more_rows
                 /\ written' = written
                        \o <<Execute(PortalName(rid[1], rid[2]), r.row_limit),
                             Sync>>]_vars

C13_Witness ==
    \E rid \in DOMAIN results :
        /\ results[rid].row_limit = 2
        /\ results[rid].data = <<>>
        /\ Cardinality(ExecutesOf(PortalName(rid[1], rid[2]))) = 2
        /\ Len(yielded[rid]) = 3
        /\ last.op = "next" /\ last.val = 1

\* The call that led from the current state to n failed the task before
\* writing the frames of its batch.
FailedUnwritten(n, frames) ==
    /\ n.last.out = "panic"
    /\ n.failing
    /\ n.written = written \o frames

\* C14: from every state, a call of try_execute, execute, try_query, query,
\* try_lazy_query or lazy_query on a statement with a number of parameters
\* different from the statement's number of parameter types fails the task:
\* it returns no value, neither a result nor an error, and writes no frame.
\* The same holds for the connection's try_execute / execute once the
\* statement is prepared.
C14_ArityMismatchPanics ==
    Running =>
        /\ \A sid \in DOMAIN stmts, c \in ExecChoices(Arity), strict \in BOOLEAN :
              c.params # stmts[sid].param_types =>
                  /\ FailedUnwritten(
                         Strict(State, try_execute(State, sid, c, NoIns), strict),
                         <<>>)
                  /\ FailedUnwritten(
                         Strict(State, try_query(State, sid, c, NoIns), strict),
                         <<>>)
                  /\ \A row_limit \in 0 .. MaxLimit :
                        FailedUnwritten(
                            Strict(State,
                                   try_lazy_query(State, sid, row_limit, c, NoIns),
                                   strict),
                            <<>>)
        /\ \A c \in WithTypes(Arity, ExecChoices(Arity)), strict \in BOOLEAN :
              c.params # c.types =>
                  FailedUnwritten(
                      Strict(State, conn_try_execute(State, c, NoIns), strict),
                      <<Parse(StmtName(next_stmt_id)),
                        Describe("S", StmtName(next_stmt_id)), Sync>>)

C14_Witness ==
    /\ last.op = "try_execute"
    /\ last.out = "panic"
    /\ failing
    /\ status = "open"
    /\ last.h \in DOMAIN stmts
    /\ stmts[last.h].param_types = 1
    /\ Frames("Bind") = {}
    /\ written[Len(written)] = Sync

\* The frames read from the transport, in order.
ReadTrace == SelectSeq(trace.log, LAMBDA e : e.dir = "B")

\* The completion frame the last try_execute has read.
Completion ==
    LET ends == {i \in 1 .. Len(ReadTrace) :
                    ReadTrace[i].f.t \in {"CommandComplete", "EmptyQueryResponse"}}
        at == CHOOSE i \in ends : \A j \in ends : j <= i
    IN  ReadTrace[at].f

ExecuteReturned ==
    /\ last.op \in {"try_execute", "conn_try_execute"}
    /\ last.out = "ok"

\* The characters of tag after its last separator (all of it without one).
AfterLast(tag, separators) ==
    LET at == {i \in 1 .. Len(tag) : tag[i] \in separators}
        from == IF at = {} THEN 0 ELSE CHOOSE i \in at : \A j \in at : j <= i
    IN  SubSeq(tag, from + 1, Len(tag))

\* The last of the maximal runs of characters that are no separators.
LastToken(tag, separators) ==
    LET ends == {i \in 1 .. Len(tag) : tag[i] \notin separators}
        end == IF ends = {} THEN 0 ELSE CHOOSE i \in ends : \A j \in ends : j <= i
    IN  AfterLast(SubSeq(tag, 1, end), separators)

IsDecimal(str) == str # <<>> /\ \A i \in 1 .. Len(str) : IsDigit(str[i])

RECURSIVE Power10(_)
Power10(k) == IF k = 0 THEN 1 ELSE 10 * Power10(k - 1)

RECURSIVE DecimalValue(_)
DecimalValue(str) ==
    IF str = <<>> THEN 0
    ELSE DigitValue(str[1]) * Power10(Len(str) - 1) + DecimalValue(Tail(str))

CountOf(token) == IF IsDecimal(token) THEN DecimalValue(token) ELSE 0

Whitespace == {" ", "\t"}

Kinds(log) == [i \in 1 .. Len(log) |-> log[i].f.t]

\* sub is seq with some of its elements left out.
RECURSIVE Embedded(_, _)
Embedded(sub, seq) ==
    IF sub = <<>> THEN TRUE
    ELSE IF seq = <<>> THEN FALSE
    ELSE IF Head(sub) = Head(seq) THEN Embedded(Tail(sub), Tail(seq))
    ELSE Embedded(sub, Tail(seq))

\* The connection's try_execute / execute has returned after the backend
\* answered the Execute with EmptyQueryResponse: the query was empty.
EmptyQueryExecuted ==
    /\ last.op = "conn_try_execute"
    /\ last.out = "ok"
    /\ Completion.t = "EmptyQueryResponse"

\* The frames the claim lists, in its order.
StatedTrace ==
    <<"Parse", "ParseComplete", "Describe", "NoData", "Sync", "ReadyForQuery",
      "Bind", "BindComplete", "Execute", "EmptyQueryResponse", "Sync",
      "ReadyForQuery">>

\* The frames execute writes and reads for the empty query, in the order of
\* the writes and reads on the transport.
EmptyQueryTrace ==
    <<"Parse", "Describe", "Sync",
      "ParseComplete", "ParameterDescription", "NoData", "ReadyForQuery",
      "Bind", "Execute", "Sync",
      "BindComplete", "EmptyQueryResponse", "ReadyForQuery",
      "Close", "Sync",
      "CloseComplete", "ReadyForQuery">>

\* The last n entries of the trace.
TraceTail(n) == SubSeq(trace.log, Len(trace.log) - n + 1, Len(trace.log))

\* C20 (as stated): execute of the empty query returns 0 and the transport
\* trace shows Parse, ParseComplete, Describe, NoData, Sync, ReadyForQuery,
\* Bind, BindComplete, Execute, EmptyQueryResponse, Sync, ReadyForQuery in
\* that order (other frames may lie between them).
C20_TraceAsStated ==
    EmptyQueryExecuted =>
        /\ last.val = 0
        /\ Embedded(StatedTrace, Kinds(trace.log))

\* C20 (amended): execute of the empty query returns 0 and its transport
\* trace is: Parse, Describe, Sync written; ParseComplete,
\* ParameterDescription, NoData, ReadyForQuery read; Bind, Execute, Sync
\* written; BindComplete, EmptyQueryResponse, ReadyForQuery read; Close, Sync
\* written; CloseComplete, ReadyForQuery read.  The frames the claim lists
\* appear in its order among the frames written and among the frames read.
C20_EmptyQueryTrace ==
    EmptyQueryExecuted =>
        /\ last.val = 0
        /\ Len(trace.log) >= Len(EmptyQueryTrace)
        /\ Kinds(TraceTail(Len(EmptyQueryTrace))) = EmptyQueryTrace
        /\ LET tail == TraceTail(Len(EmptyQueryTrace))
               dir == [i \in 1 .. Len(tail) |-> tail[i].dir]
           IN  dir = <<"F", "F", "F", "B", "B", "B", "B", "F", "F", "F",
                       "B", "B", "B", "F", "F", "B", "B">>
        /\ Embedded(SelectSeq(StatedTrace,
                              LAMBDA k : k \in {"Parse", "Describe", "Sync",
                                                "Bind", "Execute"}),
                    Kinds(SelectSeq(trace.log, LAMBDA e : e.dir = "F")))
        /\ Embedded(SelectSeq(StatedTrace,
                              LAMBDA k : k \notin {"Parse", "Describe", "Sync",
                                                   "Bind", "Execute"}),
                    Kinds(ReadTrace))

C20_Witness ==
    /\ EmptyQueryExecuted
    /\ last.val = 0
    /\ status = "open"
    /\ ~failing
    /\ Kinds(trace.log) = EmptyQueryTrace

\* The writes and reads of the last cancel_query on the transport it opened.
CancelSocket == trace.sockets[Len(trace.sockets)]

\* The one frame a cancel_query has to write, as the claim gives it.
TheCancelRequest ==
    Traced("F", [t |-> "CancelRequest", code |-> 80877102,
                 process_id |-> cancel_data.process_id,
                 secret_key |-> cancel_data.secret_key])

ConnectErrors ==
    {"InvalidUrl", "DnsError", "SocketError", "NoSslSupport", "SslError"}

CancelRequests(io) == {i \in 1 .. Len(io) : io[i].f.t = "CancelRequest"}

\* The SSL negotiation on a transport: io is nothing for mode NoSsl, and
\* else an SslRequest written and one byte read, followed by the TLS
\* handshake unless the byte is N.
Negotiated(ssl, io) ==
    IF ssl = "NoSsl" THEN io = <<>>
    ELSE /\ Len(io) >= 2
         /\ io[1] = Traced("F", [t |-> "SslRequest", code |-> 80877103])
         /\ io[2].dir = "B" /\ io[2].f.t = "byte"
         /\ IF io[2].f.b = "N" THEN Len(io) = 2
            ELSE Len(io) = 3 /\ io[3].dir = "T"

\* C16 (as stated): whatever the SSL mode, the transport of a cancel_query
\* that returns Ok shows one CancelRequest(80877102, process_id, secret_key)
\* written and no other read or write, and a cancel_query that returns an
\* error has written no CancelRequest and returns a connect error.
C16_NoOtherReadOrWrite ==
    last.op = "cancel_query" =>
        /\ last.out = "ok" => CancelSocket = <<TheCancelRequest>>
        /\ last.out # "ok" =>
              /\ last.out \in ConnectErrors
              /\ CancelRequests(CancelSocket) = {}

\* C16 (amended): a cancel_query that returns Ok has written exactly one
\* CancelRequest(80877102, process_id, secret_key) with the given cancel
\* data, as the last thing it does on the transport; before it there is no
\* read or write with mode NoSsl, and with PreferSsl or RequireSsl one
\* SslRequest written, one byte read and, unless the byte is N, the TLS
\* handshake.  A cancel_query that returns an error returns InvalidUrl,
\* DnsError, SocketError, NoSslSupport or SslError and has written no
\* CancelRequest.
C16_OneCancelRequest ==
    last.op = "cancel_query" =>
        /\ last.out = "ok" =>
              /\ Len(CancelSocket) >= 1
              /\ CancelSocket[Len(CancelSocket)] = TheCancelRequest
              /\ CancelRequests(CancelSocket) = {Len(CancelSocket)}
              /\ Negotiated(last.ssl,
                            SubSeq(CancelSocket, 1, Len(CancelSocket) - 1))
        /\ last.out # "ok" =>
              /\ last.out \in ConnectErrors
              /\ CancelRequests(CancelSocket) = {}

\* A cancel under RequireSsl that has negotiated TLS before its request,
\* with cancel data read from a BackendKeyData.
C16_Witness ==
    /\ last.op = "cancel_query"
    /\ last.out = "ok"
    /\ last.ssl = "RequireSsl"
    /\ cancel_data = [process_id |-> 3, secret_key |-> 4]
    /\ Len(CancelSocket) = 4
    /\ CancelSocket[2].f.b = "S"
    /\ CancelSocket[4] = TheCancelRequest

\* The writes and reads of try_connect before its StartupMessage.
Negotiation ==
    LET starts == {i \in 1 .. Len(trace.log) :
                      trace.log[i].f.t = "StartupMessage"}
        upto == IF starts = {} THEN Len(trace.log)
                ELSE (CHOOSE i \in starts : \A j \in starts : i <= j) - 1
    IN  SubSeq(trace.log, 1, upto)

Of(io, kind) == {i \in 1 .. Len(io) : io[i].f.t = kind}

\* try_connect has opened its socket.
SocketOpened ==
    /\ last.op = "connect"
    /\ last.out \notin {"InvalidUrl", "MissingUser", "DnsError", "SocketError"}

ReplyByte == Negotiation[2].f.b

\* C17: with mode NoSsl no SslRequest is written and the stream is plain;
\* with PreferSsl or RequireSsl exactly one SslRequest is written and one
\* byte read; on S the stream is handed to TLS; on N the stream stays plain
\* under PreferSsl and the connect fails with NoSslSupport under
\* RequireSsl; the stream is handed to TLS only when the byte is S.
C17_TlsSelection ==
    SocketOpened =>
        /\ last.ssl = "NoSsl" =>
              /\ Negotiation = <<>>
              /\ stream = "Normal"
        /\ last.ssl # "NoSsl" =>
              /\ Cardinality(Of(Negotiation, "SslRequest")) = 1
              /\ Cardinality(Of(Negotiation, "byte")) = 1
              /\ Negotiation[1].dir = "F" /\ Negotiation[1].f.t = "SslRequest"
              /\ Negotiation[2].dir = "B" /\ Negotiation[2].f.t = "byte"
              /\ ReplyByte = "S" => Of(Negotiation, "handshake") # {}
              /\ (ReplyByte = "N" /\ last.ssl = "PreferSsl") =>
                    stream = "Normal" /\ Of(Negotiation, "handshake") = {}
              /\ (ReplyByte = "N" /\ last.ssl = "RequireSsl") =>
                    last.out = "NoSslSupport"
              /\ Of(Negotiation, "handshake") # {} => ReplyByte = "S"
        /\ stream = "Ssl" => Of(Negotiation, "handshake") # {}

\* What the code does hold: C17 with "unless the byte is N" in the place of
\* "when the byte is S".
C17_TlsUnlessRefused ==
    SocketOpened =>
        /\ last.ssl = "NoSsl" => Negotiation = <<>> /\ stream = "Normal"
        /\ last.ssl # "NoSsl" =>
              /\ Negotiated(last.ssl, Negotiation)
              /\ (ReplyByte = "N" /\ last.ssl = "PreferSsl") => stream = "Normal"
              /\ (ReplyByte = "N" /\ last.ssl = "RequireSsl") =>
                    last.out = "NoSslSupport"
        /\ stream = "Ssl" => Of(Negotiation, "handshake") # {}

\* The frames try_connect has read from the backend, in order.
StartupReads ==
    SelectSeq(trace.log, LAMBDA e : e.dir = "B" /\ e.f.t # "byte")

\* The frames try_connect has written from its StartupMessage on.
StartupWrites ==
    SelectSeq(SubSeq(trace.log, Len(Negotiation) + 1, Len(trace.log)),
              LAMBDA e : e.dir = "F")

\* try_connect has read the first authentication reply.
Authenticating ==
    /\ last.op = "connect"
    /\ StartupReads # <<>>

FirstReply == StartupReads[1].f.t

Passwords == Of(StartupWrites, "PasswordMessage")

\* try_connect went on to read the startup frames: it read a frame after
\* the AuthenticationOk which is its n-th read.
Proceeds(n) ==
    /\ Len(StartupReads) > n
    /\ StartupReads[n].f.t = "AuthenticationOk"

\* C18: the first authentication reply determines the outcome.  After
\* AuthenticationOk the connect proceeds and no PasswordMessage is written.
\* After AuthenticationCleartextPassword or AuthenticationMD5Password, with
\* a password in the URL exactly one PasswordMessage is written, right after
\* the StartupMessage, and without one the connect fails with
\* MissingPassword and handle_auth writes nothing: no PasswordMessage, and
\* only the Terminate of the dropped connection follows the StartupMessage.
\* KerberosV5, SCMCredential, GSS and SSPI fail with
\* UnsupportedAuthentication and ErrorResponse with DbError.  After the
\* PasswordMessage the connect proceeds only on AuthenticationOk and fails
\* with DbError on ErrorResponse.
C18_AuthOutcome ==
    Authenticating =>
        /\ FirstReply = "AuthenticationOk" =>
              Passwords = {} /\ Proceeds(1)
        /\ FirstReply \in {"AuthenticationCleartextPassword",
                            "AuthenticationMD5Password"} =>
              IF last.pass
              THEN /\ Passwords = {2}
                   /\ Len(StartupReads) >= 2
                   /\ Len(StartupReads) > 2 => Proceeds(2)
                   /\ StartupReads[2].f.t = "AuthenticationOk" => Proceeds(2)
                   /\ StartupReads[2].f.t = "ErrorResponse" =>
                         last.out = "DbError"
                   /\ StartupReads[2].f.t # "AuthenticationOk" =>
                         last.out # "ok"
              ELSE /\ last.out = "MissingPassword"
                   /\ Kinds(StartupWrites) = <<"StartupMessage", "Terminate">>
                   /\ Len(StartupReads) = 1
        /\ FirstReply \in {"AuthenticationKerberosV5",
                            "AuthenticationSCMCredential", "AuthenticationGSS",
                            "AuthenticationSSPI"} =>
              /\ last.out = "UnsupportedAuthentication"
              /\ Passwords = {}
              /\ Len(StartupReads) = 1
        /\ FirstReply = "ErrorResponse" =>
              /\ last.out = "DbError"
              /\ Passwords = {}
              /\ Len(StartupReads) = 1

\* An MD5 request answered with the one PasswordMessage, accepted, and the
\* connect gone on to return the connection.
C18_Witness ==
    /\ Authenticating
    /\ FirstReply = "AuthenticationMD5Password"
    /\ last.pass
    /\ Passwords = {2}
    /\ Proceeds(2)
    /\ last.out = "ok"
    /\ status = "open"

\* The BackendKeyData frames read, as positions of the frames read.
KeysRead == Of(StartupReads, "BackendKeyData")

LastKeyRead ==
    LET at == CHOOSE i \in KeysRead : \A j \in KeysRead : j <= i
    IN  [process_id |-> StartupReads[at].f.process_id,
         secret_key |-> StartupReads[at].f.secret_key]

\* The frames try_connect has read after the AuthenticationOk.
AfterAuth ==
    LET oks == Of(StartupReads, "AuthenticationOk")
    IN  IF oks = {} THEN <<>>
        ELSE SubSeq(StartupReads, (CHOOSE i \in oks : TRUE) + 1,
                    Len(StartupReads))

\* C19: try_connect returns a connection only after it has read a
\* ReadyForQuery after the AuthenticationOk; the cancel data of the
\* connection is the process_id and secret_key of the last BackendKeyData
\* read during startup, in every later state of the connection; an
\* ErrorResponse read after the AuthenticationOk makes try_connect fail
\* with DbError.
C19_CancelDataFromStartup ==
    /\ (last.op = "connect" /\ last.out = "ok") =>
          /\ status = "open"
          /\ AfterAuth # <<>>
          /\ AfterAuth[Len(AfterAuth)].f.t = "ReadyForQuery"
          /\ Of(AfterAuth, "ReadyForQuery") = {Len(AfterAuth)}
    /\ (status = "open" /\ KeysRead # {}) => cancel_data_of(State) = LastKeyRead
    /\ (last.op = "connect" /\ Of(AfterAuth, "ErrorResponse") # {}) =>
          /\ last.out = "DbError"
          /\ status = "closed"
          /\ AfterAuth[Len(AfterAuth)].f.t = "ErrorResponse"

\* A connection that has read two different BackendKeyData frames, reports
\* the second, and has since prepared and executed a statement.
C19_Witness ==
    /\ status = "open"
    /\ last.op = "try_execute"
    /\ Cardinality(KeysRead) = 2
    /\ cancel_data_of(State) = [process_id |-> 3, secret_key |-> 4]
    /\ \E i \in KeysRead : StartupReads[i].f.process_id = 1

\* C21: row[i] on a row of n columns selects, for 1 <= i <= n, the cell at
\* the 0-based position i - 1 of the row, decoded with the type of the
\* column at that position; for i = 0, i < 0 and i > n it fails the task and
\* returns nothing.
C21_OneBasedChecked ==
    last.op = "index" =>
        LET n == stmts[last.h].result_desc IN
        IF 1 <= last.i /\ last.i <= n
        THEN /\ last.out = "ok"
             /\ last.val = [ty |-> <<"ty", last.h, last.i - 1>>,
                            raw |-> <<"cell", last.row, last.i - 1>>]
        ELSE /\ last.out \in {"panic", "abort"}
             /\ failing

\* The second column of a row of two read with the index 2.
C21_Witness ==
    /\ last.op = "index"
    /\ last.out = "ok"
    /\ last.i = 2
    /\ stmts[last.h].result_desc = 2
    /\ last.val.raw = <<"cell", 1, 1>>

\* The batches on the transport: the maximal runs of written frames in the
\* trace, as pairs of their first and last position.  The connection reads
\* at least one frame between two of its batches.
Written(i) == i >= 1 /\ i <= Len(trace.log) /\ trace.log[i].dir = "F"

Batches ==
    {b \in (1 .. Len(trace.log)) \X (1 .. Len(trace.log)) :
        /\ b[1] <= b[2]
        /\ \A i \in b[1] .. b[2] : Written(i)
        /\ ~Written(b[1] - 1)
        /\ ~Written(b[2] + 1)}

ExtendedQuery == {"Parse", "Bind", "Describe", "Execute", "Close"}

KindsIn(b) == {trace.log[i].f.t : i \in b[1] .. b[2]}

\* The number of entries among the first n of the trace that satisfy Is.
CountTo(n, Is(_)) == Cardinality({i \in 1 .. n : Is(trace.log[i])})

\* C22: every batch on the transport that holds a Parse, Bind, Describe,
\* Execute or Close frame ends with Sync and holds no other Sync; and no
\* reply is read before the batch it answers is on the transport: at any
\* point of the trace, no more ReadyForQuery frames have been read than Sync
\* and Query frames written.
C22_BatchesEndWithSync ==
    /\ \A b \in Batches :
          KindsIn(b) \cap ExtendedQuery # {} =>
              /\ trace.log[b[2]].f.t = "Sync"
              /\ \A i \in b[1] .. b[2] - 1 : trace.log[i].f.t # "Sync"
    /\ \A n \in 1 .. Len(trace.log) :
          CountTo(n, LAMBDA e : e.dir = "B" /\ e.f.t = "ReadyForQuery")
              <= CountTo(n, LAMBDA e : e.dir = "F" /\ e.f.t \in {"Sync", "Query"})

\* A run with each of the batches: Parse, Describe, Sync; Bind, Execute,
\* Sync; Execute, Sync; Close, Sync.
C22_Witness ==
    /\ \E b \in Batches : KindsIn(b) = {"Parse", "Describe", "Sync"}
    /\ \E b \in Batches : KindsIn(b) = {"Bind", "Execute", "Sync"}
    /\ \E b \in Batches : KindsIn(b) = {"Execute", "Sync"}
    /\ \E b \in Batches : KindsIn(b) = {"Close", "Sync"}

\* The frames a stream may hold ahead of read_message, and the streams of at
\* most MaxStream of them.  The payloads 7 and 8 are notifications that no
\* reply of the backend carries.
StreamFrames ==
    {NoticeResponse, ParameterStatus, NotificationResponse(7),
     NotificationResponse(8), ReadyForQuery, DataRow(NoName, 1)}

Streams == UNION {[1 .. n -> StreamFrames] : n \in 0 .. MaxStream}

\* The number of asynchronous frames at the front of a stream.
RECURSIVE AsyncPrefix(_)
AsyncPrefix(frames) ==
    IF frames = <<>> \/ ~IsAsync(Head(frames)) THEN 0
    ELSE 1 + AsyncPrefix(Tail(frames))

\* The elements of a sequence of frames that are of kind t, in order.
RECURSIVE OfKind(_, _)
OfKind(fs, t) ==
    IF fs = <<>> THEN <<>>
    ELSE (IF Head(fs).t = t THEN <<Head(fs)>> ELSE <<>>)
             \o OfKind(Tail(fs), t)

\* What read_message is to do with a stream in the current state: consume
\* the k asynchronous frames at its front and the frame after them, pass
\* each notice among the k to the installed handler, append each
\* notification among them to the back of the queue, and return the frame
\* after them (the end of the stream if there is none).
ReadAsStated(frames) ==
    LET k == AsyncPrefix(frames)
        front == SubSeq(frames, 1, k)
        notices == OfKind(front, "NoticeResponse")
        notes == OfKind(front, "NotificationResponse")
        payloads == [i \in 1 .. Len(notes) |-> notes[i].n]
    IN  [s |-> [State EXCEPT
                   !.inbuf = SubSeq(frames, k + 2, Len(frames)),
                   !.handled = @ \o [i \in 1 .. Len(notices) |-> notice_handler],
                   !.notifications = @ \o payloads,
                   !.seen = @ \o payloads],
         msg |-> IF k < Len(frames) THEN frames[k + 1] ELSE EOF]

\* C23: in every reachable state of the connection and for every stream,
\* read_message returns the first frame of the stream that is not a
\* NoticeResponse, NotificationResponse or ParameterStatus, having consumed
\* exactly the asynchronous frames before it: each NoticeResponse passed
\* once to the installed notice handler, each NotificationResponse appended
\* once to the back of the notification queue, each ParameterStatus dropped
\* without effect.
C23_ReadSkipsAsyncFrames ==
    \A frames \in Streams :
        LET r == read_message([State EXCEPT !.inbuf = frames])
        IN  /\ ~IsAsync(r.msg)
            /\ r = ReadAsStated(frames)

\* A handler was installed in place of the default one and has received a
\* notice, and a notification is waiting in the queue that read_message
\* appends to.
C23_Witness ==
    /\ notice_handler # 0
    /\ \E i \in 1 .. Len(handled) : handled[i] = notice_handler
    /\ notifications # <<>>

\* The Parse frames written, in order, and the Bind frames written that open
\* a named portal on the statement with identifier sid, in order.
Parsed == OfKind(written, "Parse")

RECURSIVE BoundOn(_, _)
BoundOn(fs, sid) ==
    IF fs = <<>> THEN <<>>
    ELSE (IF /\ Head(fs).t = "Bind"
             /\ Head(fs).stmt = StmtName(sid)
             /\ Head(fs).name # NoName
          THEN <<Head(fs)>> ELSE <<>>) \o BoundOn(Tail(fs), sid)

\* The names given to statements and portals by the frames fs, in the order
\* they were taken.
RECURSIVE Opens(_)
Opens(fs) ==
    IF fs = <<>> THEN <<>>
    ELSE (IF Head(fs).t = "Parse"
             \/ (Head(fs).t = "Bind" /\ Head(fs).name # NoName)
          THEN <<Head(fs).name>> ELSE <<>>) \o Opens(Tail(fs))

NamesTaken == Opens(written)

\* C24: the n-th try_prepare of a connection, successful or failed, names
\* its statement statement_<n-1>; the k-th result stream of a statement
\* names its portal <statement name>_portal_<k-1>; and no name is taken
\* twice, by statements or by portals.
C24_NamesNeverReused ==
    /\ Len(Parsed) = next_stmt_id
    /\ \A i \in 1 .. Len(Parsed) : Parsed[i].name = StmtName(i - 1)
    /\ \A sid \in 0 .. next_stmt_id - 1 :
          LET binds == BoundOn(written, sid)
          IN  /\ sid \in DOMAIN stmts => Len(binds) = stmts[sid].next_portal_id
              /\ \A k \in 1 .. Len(binds) : binds[k].name = PortalName(sid, k - 1)
    /\ Cardinality({NamesTaken[i] : i \in 1 .. Len(NamesTaken)})
           = Len(NamesTaken)

\* A prepare failed and a later one succeeded, and the later statement has
\* opened two result streams.
C24_Witness ==
    /\ next_stmt_id = 2
    /\ StmtName(0) \notin opened
    /\ StmtName(1) \in opened
    /\ {PortalName(1, 0), PortalName(1, 1)} \subseteq opened

\* The portals of the statement handle sid that are active: a Bind opened
\* them and no Close('P') has been written for them yet.
Active(sid) ==
    {k \in 0 .. MaxNames :
        /\ PortalName(sid, k) \in opened
        /\ CloseCount(PortalName(sid, k)) = 0}

\* The result streams of the statement handle sid that are alive.
Streaming(sid) == {rid[2] : rid \in {r \in DOMAIN results : r[1] = sid}}

\* C25 as stated: at most one portal is active per statement handle.
C25_OnePortalPerStatement ==
    \A sid \in DOMAIN stmts : Cardinality(Active(sid)) <= 1

\* C25: while the connection is in use, the active portals of a statement
\* handle are those of its live result streams, one portal each under its
\* own name; a statement handle may have several of them at once.
C25_PortalPerResultStream ==
    Running => \A sid \in DOMAIN stmts : Active(sid) = Streaming(sid)

\* Two result streams of one statement are alive, and so two portals of it
\* are active, the second opened between the Bind and the Close of the first.
C25_Witness ==
    /\ Running
    /\ \E sid \in DOMAIN stmts : Cardinality(Active(sid)) = 2

\* The queries written that end a transaction or a nested transaction.
Terminations ==
    {i \in Frames("Query") :
        written[i].q \in {"COMMIT", "ROLLBACK", "RELEASE sp", "ROLLBACK TO sp"}}

\* The state of a dropped connection: one Terminate was written and it is
\* the last frame; before it, one Close for every statement and portal made
\* and one termination query for every transaction handle made.
TerminatedLast ==
    /\ Cardinality(Frames("Terminate")) = 1
    /\ written[Len(written)] = Terminate
    /\ \A name \in opened : CloseCount(name) = 1
    /\ Cardinality(Terminations) = Begun

\* C26: once the connection is dropped, exactly one Terminate has been
\* written and it is the last frame: every Close of a statement or portal
\* and every transaction termination query of the connection precedes it,
\* and nothing is written afterwards; no Terminate is written before the
\* drop; and the drop ends normally also when the write of Terminate meets
\* a transport error.
C26_TerminateIsLast ==
    /\ [](status = "closed" => TerminatedLast)
    /\ [](status # "closed" => Frames("Terminate") = {})
    /\ [][status = "closed" => written' = written]_vars
    /\ [](last.op = "drop_connection" =>
             /\ status = "closed"
             /\ last.out = "ok")

\* A connection on which a statement, a result stream and a transaction
\* were made was dropped, and the write of Terminate met a transport error.
C26_Witness ==
    /\ status = "closed"
    /\ last.op = "drop_connection"
    /\ last.io = "error"
    /\ \E name \in opened : Len(name) = 2
    /\ \E name \in opened : Len(name) = 4
    /\ Begun > 0

\* The places of the trace where the type query for oid is written.
TypeQueries(oid) ==
    {i \in 1 .. Len(trace.log) :
        trace.log[i].dir = "F" /\ trace.log[i].f = TypeQuery(oid)}

\* The name the backend gave in answer to the type query written at place
\* i of the trace: the cell of the first DataRow read after it.
NameGiven(i) ==
    LET rows == {j \in i + 1 .. Len(trace.log) :
                    trace.log[j].dir = "B" /\ trace.log[j].f.t = "DataRow"}
    IN  trace.log[CHOOSE j \in rows : \A k \in rows : j <= k].f.row[1]

\* C27: a type query is written only when the ReadyForQuery of the Parse
\* batch before it, and of every other batch before it, has been read; at
\* most one type query is written per OID; the connection caches the name
\* given in answer to it; and every statement names its types of that OID
\* by the cached name.
C27_TypeNameResolvedOnce ==
    /\ \A oid \in 1 .. MaxOids :
          /\ Cardinality(TypeQueries(oid)) <= 1
          /\ \A i \in TypeQueries(oid) :
                /\ \E j \in 1 .. i - 1 :
                      trace.log[j].dir = "F" /\ trace.log[j].f.t = "Parse"
                /\ CountTo(i - 1, LAMBDA e : e.dir = "B" /\ e.f.t = "ReadyForQuery")
                      = CountTo(i - 1, LAMBDA e : e.dir = "F"
                                                  /\ e.f.t \in {"Sync", "Query"})
          /\ oid \in DOMAIN unknown_types =>
                \E i \in TypeQueries(oid) : unknown_types[oid] = NameGiven(i)
    /\ \A sid \in DOMAIN stmts :
          \A k \in 1 .. Len(stmts[sid].unknown) :
             LET u == stmts[sid].unknown[k]
             IN  /\ u.oid \in DOMAIN unknown_types
                 /\ u.name = unknown_types[u.oid]

\* Two statements have a type of the same unknown OID, and its name was
\* asked for once.
C27_Witness ==
    \E oid \in 1 .. MaxOids :
        /\ Cardinality(TypeQueries(oid)) = 1
        /\ \E a, b \in DOMAIN stmts :
              /\ a # b
              /\ \E k \in 1 .. Len(stmts[a].unknown) : stmts[a].unknown[k].oid = oid
              /\ \E k \in 1 .. Len(stmts[b].unknown) : stmts[b].unknown[k].oid = oid

\* The number of savepoints the backend held before the SAVEPOINT sp of the
\* nested transaction handle id.
DepthBefore(id) ==
    LET i == CHOOSE j \in 1 .. Len(hist) :
                 hist[j].ev = "nested" /\ hist[j].h = id
    IN  hist[i].depth

\* The last operation was the drop of a nested transaction handle and its
\* RELEASE sp or ROLLBACK TO sp succeeded.
NestedEnded ==
    /\ last.op = "drop_transaction"
    /\ last.out = "ok"
    /\ \E j \in 1 .. Len(hist) : hist[j].ev = "nested" /\ hist[j].h = last.h

\* C28: after the RELEASE sp or ROLLBACK TO sp of a nested transaction
\* handle, the backend holds as many savepoints named sp as it held before
\* the SAVEPOINT sp of that handle.
C28_SavepointsBalanced ==
    NestedEnded => Len(bsavepoints) = DepthBefore(last.h)

\* The result streams there may be.
ResultIds == (0 .. MaxStmts) \X (0 .. MaxNames)

\* The last call was a next() of the result stream rid that returned None.
ReturnedNone(rid) == last.op = "next" /\ last.h = rid /\ last.val = 0

\* The number of rows the backend has for the portal of rid.
Total(rid) == bportals[PortalName(rid[1], rid[2])].total

\* C29: a result stream that is iterated comes to a next() that returns
\* None, unless it is dropped before; when next() returns None the stream
\* has yielded all N rows of its portal; with a row limit L > 0 at most
\* N / L + 1 Execute frames are ever written for the portal; and a next()
\* after one that returned None returns None and writes nothing.
C29_IterationEnds ==
    /\ \A rid \in ResultIds :
          (rid \in DOMAIN results)
              ~> (rid \notin DOMAIN results \/ ReturnedNone(rid))
    /\ [](\A rid \in DOMAIN results :
             /\ ReturnedNone(rid) => Len(yielded[rid]) = Total(rid)
             /\ results[rid].row_limit > 0 =>
                   Cardinality(ExecutesOf(PortalName(rid[1], rid[2])))
                       <= (Total(rid) \div results[rid].row_limit) + 1)
    /\ [][\A rid \in DOMAIN results :
             (/\ results[rid].data = <<>>
              /\ ~results[rid].more_rows
              /\ last'.op = "next"
              /\ last'.h = rid)
                 => (last'.val = 0 /\ written' = written)]_vars

\* A stream of N = MaxRows rows and row limit 1 has been iterated to the
\* end: N + 1 Execute frames were written and next() returned None.
C29_Witness ==
    \E rid \in DOMAIN results :
        /\ ReturnedNone(rid)
        /\ results[rid].row_limit = 1
        /\ Len(yielded[rid]) = MaxRows
        /\ Cardinality(ExecutesOf(PortalName(rid[1], rid[2]))) = MaxRows + 1

\* The call that led from the current state to n failed the task with the
\* connection Ready: no Bind and no Execute was added to what is written,
\* every reply has been read, and the connection is open.
FailedReady(n) ==
    /\ n.failing
    /\ n.status = "open"
    /\ n.inbuf = <<>>
    /\ SelectSeq(n.written, LAMBDA f : f.t \in {"Bind", "Execute"})
           = SelectSeq(written, LAMBDA f : f.t \in {"Bind", "Execute"})

\* C30: a call of try_execute, try_query or try_lazy_query on a statement,
\* or of the connection's try_execute, with a number of parameters other
\* than the statement's fails the task with no Bind and no Execute written
\* and, on a statement, no Sync either, and with the connection Ready; and
\* the drops that run while the task unwinds find the connection
\* synchronized: each reads its reply to the end, none fails or hangs.
C30_MismatchLeavesReady ==
    /\ Running =>
          /\ \A sid \in DOMAIN stmts, c \in ExecChoices(Arity) :
                c.params # stmts[sid].param_types =>
                    /\ FailedReady(try_execute(State, sid, c, NoIns))
                    /\ try_execute(State, sid, c, NoIns).written = written
                    /\ \A row_limit \in 0 .. MaxLimit :
                          LET n == try_lazy_query(State, sid, row_limit, c, NoIns)
                          IN  FailedReady(n) /\ n.written = written
          /\ \A c \in WithTypes(Arity, ExecChoices(Arity)) :
                c.params # c.types =>
                    FailedReady(conn_try_execute(State, c, NoIns))
    /\ failing =>
          /\ inbuf = <<>>
          /\ status \in {"open", "closed"}
          /\ last.op \in {"drop_result", "drop_statement", "drop_transaction",
                           "drop_connection"} => last.out = "ok"

\* A query with the wrong number of parameters failed the task, and the
\* statement, the transaction and the connection were dropped after it: the
\* statement was closed and no Bind was ever written.
C30_Witness ==
    /\ failing
    /\ status = "closed"
    /\ Frames("Bind") = {}
    /\ Frames("Close") # {}
    /\ \E i \in 1 .. Len(written) : written[i] = Query("ROLLBACK")

\* The portals of result streams made on the statement named name: the
\* names a PostgresResult was constructed for.
PortalsOf(name) ==
    {p \in opened : Len(p) = 4 /\ StmtName(p[2]) = name}

\* Close('P', p) + Sync is written before position j.
ClosedBefore(p, j) ==
    \E k \in 1 .. j - 2 :
        written[k] = Close("P", p) /\ written[k + 1] = Sync

\* Every Close('S', name) written comes after the Close('P', portal) + Sync
\* of every result stream made on that statement, and a statement is
\* dropped only when no result stream of it is left to drop.
ClosedInnermostFirst ==
    /\ \A j \in Frames("Close") :
          written[j].variant = "S" =>
              \A p \in PortalsOf(written[j].name) : ClosedBefore(p, j)
    /\ \A rid \in DOMAIN results : rid[1] \in DOMAIN stmts

\* A drop of a result stream or of a statement that has returned has read
\* the stream to its end: the ReadyForQuery answering its own Sync is the
\* last frame the backend sent, so this says the drop consumed the frames
\* up to and including it, no fewer.
DropReadItsReply ==
    (last.op \in {"drop_result", "drop_statement"} /\ status = "open")
        => inbuf = <<>>

\* C31: server-side objects are released innermost first: the Close('P',
\* portal) + Sync of every result stream is written, and drained to
\* ReadyForQuery, before the Close('S', name) of its statement, and each
\* such drop consumes exactly the frames up to and including the
\* ReadyForQuery that answers its own Sync.
C31_ReleasedInnermostFirst ==
    ClosedInnermostFirst /\ DropReadItsReply

\* The order of C31 alone: it holds in every state, failing task or not.
C31_OrderOnly == ClosedInnermostFirst

\* The consumption of C31 while the task is not unwinding from the failure
\* of read_rows or of quick_query.
C31_ReadWhileRunning == ~failing => DropReadItsReply

\* A statement with a result stream was dropped after its result stream,
\* the task running.
C31_Witness ==
    /\ ~failing
    /\ last.op = "drop_statement"
    /\ \E j \in Frames("Close") :
          written[j].variant = "S" /\ PortalsOf(written[j].name) # {}

====
